---- MODULE Spec2Model ----
(***************************************************************************)
(* State-machine models of the Jarvis prototype servers.                   *)
(*                                                                         *)
(*   Spec       jarvis_core_system.py: JarvisCore.process_frame,           *)
(*              ConfidenceScorer and SelfHealingAutomation                 *)
(*              .execute_automation with its recursive retry layer.        *)
(*   SpecStub   the same machine with the iOS helper stubs exactly as      *)
(*              written in the source.                                     *)
(*   SpecCore   JarvisCore.process_frame driving execute_automation.       *)
(*   SpecFrame  Cloud-AI/ai_server.py, one request at a time.              *)
(*   SpecRace   Cloud-AI/ai_server.py, two request threads interleaved     *)
(*              statement by statement.                                    *)
(*   SpecServers  the frame servers of Cloud-AI and iOS-App, one request   *)
(*              at a time.                                                 *)
(*   SpecHist   the two servers that keep a rolling history, over enough   *)
(*              requests to fill it.                                       *)
(*   SpecExample  iOS-App/MirrorApp/ai_server_example.py: frames, test     *)
(*              commands, polls and the clock.                             *)
(*   SpecPoll   the same with clients that keep polling GET /commands.     *)
(*   SpecModal  Cloud-AI/modal_qwen_deploy.py with its commands in full.   *)
(*   SpecScorer ConfidenceScorer.score_command and update_history called   *)
(*              directly; SpecUpdates starts near the history cap.         *)
(*   SpecSessions  Cloud-AI/ai_vision_server_2025.py, two request threads  *)
(*              interleaved statement by statement.                        *)
(*   SpecLife   Cloud-AI/lifeos_prototype.py: POST /intake.                *)
(*   SpecAutomation  process_frame_for_automation of Cloud-AI/ai_server.py *)
(*              called directly.                                           *)
(***************************************************************************)
EXTENDS Integers, Sequences, FiniteSets, TLC

VARIABLES
    mode,           \* "stub": helper stubs as written; "live": helpers answer freely
    stack,          \* the chain of active execute_automation invocations
    elements,       \* PersonalRAG.elements: descriptions stored for the app
    history,        \* ConfidenceScorer.history: app of the key -> its entries
    screens,        \* number of records in PersonalRAG.screens
    req,            \* the top-level request being served
    resp,           \* what the last finished top-level request returned
    calls,          \* execute_automation invocations of the current top-level call
    asks,           \* _request_user_teaching invocations of the current top-level call
    learnedBefore   \* _learn_from_user had stored the call's description when it began

coreVars == <<mode, stack, elements, history, screens, req, resp, calls, asks,
              learnedBefore>>

VARIABLES
    aPc,            \* ai_server.py: where each request thread stands
    aBody,          \* the request each thread is serving
    aLoc,           \* the thread's local values
    stats,          \* stats["frames_received"], ["commands_sent"], ["last_frame_time"]
    latest_frame,   \* the latest_frame slot
    frame_lock,     \* the thread holding frame_lock, 0 when free
    aOut,           \* the last response each thread sent
    aSerial,        \* POST /frame requests accepted so far
    written,        \* what each POST /frame request stored in latest_frame
    lastLocker,     \* the POST /frame request that acquired frame_lock last
    answered        \* the POST /frame requests answered: where each ended, and its response

frameVars == <<aPc, aBody, aLoc, stats, latest_frame, frame_lock, aOut, aSerial,
               written, lastLocker, answered>>

VARIABLES
    interaction_history,  \* ai_server_qwen_ultimate.py: QwenVisionSystem.interaction_history
    qAppends,             \* entries appended to it since it was last emptied
    user_sessions,        \* ai_vision_server_2025.py: user_sessions
    sessions,             \* ai_server_example.py: sessions
    now,                  \* the clock
    local_server,         \* ai_server_local.py: stats and latest_frame
    srvOut,               \* the last response of these servers
    nreq                  \* requests they have served

srvVars == <<interaction_history, qAppends, user_sessions, sessions, now,
             local_server, srvOut, nreq>>

VARIABLES
    polled,         \* ai_server_example.py: the device whose GET /commands was
                    \* the last request served, "none" after any other request
    swipeTimes,     \* device -> the times at which make_decision queued a swipe for it
    decided         \* the last frame make_decision was called for

exVars == <<polled, swipeTimes, decided>>

VARIABLES
    modalIn,        \* modal_qwen_deploy.py: the last POST /frame request
    modalOut        \* its response

modalVars == <<modalIn, modalOut>>

VARIABLES
    recorded,       \* ConfidenceScorer: history key -> every result update_history was given for it
    scored,         \* the last score_command call: its arguments and what it returned
    nUpdates        \* update_history calls made directly

scorerVars == <<recorded, scored, nUpdates>>

VARIABLES
    vPc,            \* ai_vision_server_2025.py: where each request thread stands
    vReq,           \* the request each thread is serving
    vTmp,           \* the value a thread read for `+= 1`
    session_lock,   \* the thread holding session_lock, 0 when free
    decoded,        \* device -> POST /frame requests that passed image decoding
    created,        \* device -> session dicts created for it
    reported,       \* what the last GET /sessions listed: device -> frames_received, -1 when absent
    vStarted        \* POST /frame requests taken up by the threads

visVars == <<vPc, vReq, vTmp, session_lock, decoded, created, reported, vStarted>>

VARIABLES
    USER_CONTEXTS,  \* lifeos_prototype.py: USER_CONTEXTS
    lifeIn,         \* the last POST /intake request
    lifeOut,        \* its response
    nIntakes        \* POST /intake requests served

lifeVars == <<USER_CONTEXTS, lifeIn, lifeOut, nIntakes>>

VARIABLES
    autoIn,         \* ai_server.py: what process_frame_for_automation was called with
    autoOut         \* what the call returned, or that it raised

autoVars == <<autoIn, autoOut>>

vars == <<coreVars, frameVars, srvVars, exVars, modalVars, scorerVars, visVars, lifeVars, autoVars>>

\* the variables other than those of jarvis_core_system.py
notCore == <<frameVars, srvVars, exVars, modalVars, scorerVars, visVars, lifeVars, autoVars>>

\* the variables other than those of ai_server.py
notFrame == <<coreVars, srvVars, exVars, modalVars, scorerVars, visVars, lifeVars, autoVars>>

\* the variables of the other programs, for the frame servers
notSrv == <<coreVars, frameVars, exVars, modalVars, scorerVars, visVars, lifeVars, autoVars>>

\* the variables of the other programs, for ai_server_example.py
notExample == <<coreVars, frameVars, modalVars, scorerVars, visVars, lifeVars, autoVars>>

\* the variables of the other programs, for modal_qwen_deploy.py
notModal == <<coreVars, frameVars, srvVars, exVars, scorerVars, visVars, lifeVars, autoVars>>

\* the variables of the other programs, for ConfidenceScorer called directly
notScorer == <<frameVars, srvVars, exVars, modalVars, visVars, lifeVars, autoVars>>

\* the variables of the other programs, for ai_vision_server_2025.py with its request threads
notVision == <<coreVars, frameVars, exVars, modalVars, scorerVars, lifeVars, autoVars>>

\* the variables of the other programs, for lifeos_prototype.py
notLife == <<coreVars, frameVars, srvVars, exVars, modalVars, scorerVars, visVars, autoVars>>

\* the variables of the other programs, for process_frame_for_automation
\* of ai_server.py called directly
notAuto == <<coreVars, frameVars, srvVars, exVars, modalVars, scorerVars, visVars, lifeVars>>

----------------------------------------------------------------------------
(* Bounds of the model *)

\* records PersonalRAG.screens may hold before no further request is started
MaxScreens == 4

----------------------------------------------------------------------------
(* Exact rational arithmetic for the confidence values: <<numerator, denominator>> *)

RECURSIVE GCD(_, _)
GCD(a, b) == IF b = 0 THEN a ELSE GCD(b, a % b)

Abs(n) == IF n < 0 THEN -n ELSE n

Rat(n, d) ==
    LET g == GCD(Abs(n), d) IN <<n \div g, d \div g>>

RAdd(a, b) == Rat(a[1] * b[2] + b[1] * a[2], a[2] * b[2])
RMul(a, b) == Rat(a[1] * b[1], a[2] * b[2])
RGt(a, b)  == a[1] * b[2] > b[1] * a[2]
RMin(a, b) == IF RGt(a, b) THEN b ELSE a

----------------------------------------------------------------------------
(* Inputs *)

Descriptions == {"like button", "share button"}

\* command.confidence of a directly submitted command
Confidences == {Rat(4, 5), Rat(19, 20), Rat(6, 5)}

\* command.retry_count and command.max_retries of a directly submitted command
RetryCounts == {-1, 0, 3}
MaxRetriesIn == {1, 3}

\* which of the keys "element_id" and "text" the target carries
TargetKeys == {{}, {"element_id", "text"}}

\* process_frame contexts: app, ai_confidence (has_ai: the key is present)
\* and learned_from_user
Apps == {"instagram", "tiktok"}
AiConfidences == {Rat(1, 2), Rat(7, 6), Rat(3, 2)}
Contexts ==
    [app : Apps, has_ai : {TRUE}, ai_confidence : AiConfidences,
     learned_from_user : BOOLEAN]
    \cup [app : Apps, has_ai : {FALSE}, ai_confidence : {Rat(0, 1)},
          learned_from_user : BOOLEAN]

----------------------------------------------------------------------------
(* AutomationCommand and the helpers of SelfHealingAutomation *)

DefaultMaxRetries == 3

AutomationCommand(action, target, confidence, retry_count, max_retries) ==
    [action |-> action, target |-> target, confidence |-> confidence,
     retry_count |-> retry_count, max_retries |-> max_retries]

Target(desc, keys, x, y) == [description |-> desc, keys |-> keys, x |-> x, y |-> y]

DetectApp == "instagram"

Min(a, b) == IF a < b THEN a ELSE b

\* int(v * 0.9) and int(v * 1.1): truncation toward zero
Scale(v, num) ==
    IF v >= 0 THEN (v * num) \div 10 ELSE -(((-v) * num) \div 10)

Adjustments ==
    << [x_offset |-> 10, y_offset |-> 0, scale |-> 0],
       [x_offset |-> -10, y_offset |-> 0, scale |-> 0],
       [x_offset |-> 0, y_offset |-> 10, scale |-> 0],
       [x_offset |-> 0, y_offset |-> -10, scale |-> 0],
       [x_offset |-> 0, y_offset |-> 0, scale |-> 9],
       [x_offset |-> 0, y_offset |-> 0, scale |-> 11] >>

ApplyAdjustment(target, adj) ==
    IF adj.scale = 0
    THEN [target EXCEPT !.x = target.x + adj.x_offset,
                        !.y = target.y + adj.y_offset]
    ELSE [target EXCEPT !.x = Scale(target.x, adj.scale),
                        !.y = Scale(target.y, adj.scale)]

\* a retry_count copied before execute_automation incremented it
AdjustedRetryCountStale(command) == command.retry_count - 1

\* the retry_count of the command _adjust_command builds
AdjustedRetryCount(command) == command.retry_count

\* _adjust_command reads the command after execute_automation incremented
\* its retry_count; max_retries is not passed on and gets the default.
\* A negative index counts from the end of the list, as in Python.
AdjustCommand(command) ==
    LET i == Min(command.retry_count, Len(Adjustments) - 1)
        k == IF i >= 0 THEN i + 1 ELSE Len(Adjustments) + i + 1
    IN AutomationCommand(command.action,
                         ApplyAdjustment(command.target, Adjustments[k]),
                         RMul(command.confidence, Rat(9, 10)),
                         AdjustedRetryCount(command),
                         DefaultMaxRetries)

Result(success, method) == [success |-> success, method |-> method]

NoResult == Result(FALSE, "None")

\* What the iOS-facing helpers may answer.  As written they are stubs:
\* _query_accessibility_service, _trigger_accessibility_element and
\* _find_elements_by_text return None, _execute_tap returns True,
\* _wait_for_user_action returns an action, the model answers confidence
\* 0.95 with no "success" key and the image diff is 0.1.
QueryFinds       == IF mode = "stub" THEN {FALSE} ELSE BOOLEAN
FindFinds        == IF mode = "stub" THEN {FALSE} ELSE BOOLEAN
TriggerSucceeds  == IF mode = "stub" THEN {FALSE} ELSE BOOLEAN
ExecuteTap       == IF mode = "stub" THEN {TRUE} ELSE BOOLEAN
UserActs         == IF mode = "stub" THEN {TRUE} ELSE BOOLEAN
ModelConfidences == IF mode = "stub" THEN {Rat(19, 20)} ELSE {Rat(19, 20), Rat(97, 100)}
ModelSaysSuccess == IF mode = "stub" THEN {FALSE} ELSE BOOLEAN
DiffChanged      == IF mode = "stub" THEN {TRUE} ELSE BOOLEAN

ConfidenceThreshold == Rat(19, 20)
AccessibilityGate == Rat(9, 10)

\* _try_accessibility_api with a last return that reports success
AccessibilityResultUnfound(command, q, f, t) ==
    IF "element_id" \in command.target.keys /\ q
    THEN Result(t, "accessibility_api")
    ELSE IF "text" \in command.target.keys /\ f
    THEN Result(t, "accessibility_text_match")
    ELSE Result(TRUE, "accessibility_api")

\* _try_accessibility_api, given what the helpers answer: q the element found
\* by id, f the elements found by text, t the trigger's return value
AccessibilityResult(command, q, f, t) ==
    IF "element_id" \in command.target.keys /\ q
    THEN Result(t, "accessibility_api")
    ELSE IF "text" \in command.target.keys /\ f
    THEN Result(t, "accessibility_text_match")
    ELSE Result(FALSE, "accessibility_api")

TryAccessibilityApi(command) ==
    {AccessibilityResult(command, q, f, t) :
        q \in QueryFinds, f \in FindFinds, t \in TriggerSucceeds}

\* PersonalRAG.get_element_location: the nearest stored element of the app,
\* whatever its description; None when the app has no stored element
GetElementLocation(app, desc) == elements # {}

\* _try_visual_ai
TryVisualAi(command) ==
    IF GetElementLocation(DetectApp, command.target.description)
    THEN {Result(t, "visual_ai_memory") : t \in ExecuteTap}
    ELSE UNION {IF RGt(c, ConfidenceThreshold)
                THEN {Result(t, "visual_ai_lora") : t \in ExecuteTap}
                ELSE {Result(FALSE, "visual_ai")} : c \in ModelConfidences}

\* _verify_action: verification.get("success", False) and diff > 0.05
VerifyAction == {s /\ d : s \in ModelSaysSuccess, d \in DiffChanged}

\* _request_user_teaching
RequestUserTeaching == {Result(u, "user_teaching") : u \in UserActs}

----------------------------------------------------------------------------
(* ConfidenceScorer *)

HistoryCap == 100

ExecuteThreshold == Rat(7, 10)

Successes(h) == Cardinality({i \in 1..Len(h) : h[i].success})

\* `return score` without the min
CapScoreMissing(score) == score

\* `return min(score, 1.0)`
CapScore(score) == RMin(score, Rat(1, 1))

\* score_command; the history key is present once update_history appended to it
ScoreCommand(command, context, h) ==
    LET s0 == Rat(1, 2)
        s1 == IF Len(h) > 0
              THEN RAdd(RMul(s0, Rat(3, 10)),
                        RMul(Rat(Successes(h), Len(h)), Rat(7, 10)))
              ELSE s0
        s2 == IF "element_id" \in command.target.keys THEN RAdd(s1, Rat(1, 5))
              ELSE IF "text" \in command.target.keys THEN RAdd(s1, Rat(1, 10))
              ELSE s1
        s3 == IF context.has_ai
              THEN RAdd(RMul(s2, Rat(7, 10)), RMul(context.ai_confidence, Rat(3, 10)))
              ELSE s2
        s4 == IF context.learned_from_user THEN Rat(99, 100) ELSE s3
    IN CapScore(s4)

\* `[-100:]` read as `[:100]`
FirstN(s, n) == IF Len(s) > n THEN SubSeq(s, 1, n) ELSE s

LastN(s, n) == IF Len(s) > n THEN SubSeq(s, Len(s) - n + 1, Len(s)) ELSE s

\* update_history
UpdateHistory(h, result) ==
    LastN(Append(h, [success |-> result.success, method |-> result.method]),
          HistoryCap)

\* JarvisCore._generate_command
GenerateCommand ==
    AutomationCommand("tap", Target("like button", {}, 100, 200), Rat(4, 5),
                      0, DefaultMaxRetries)

----------------------------------------------------------------------------
(* ConfidenceScorer called directly *)

\* update_history calls followed
MaxUpdates == 3

\* context["ai_confidence"] values, inside and outside [0, 1]
ScorerConfidences == {Rat(-1, 2), Rat(0, 1), Rat(1, 2), Rat(1, 1), Rat(3, 2)}

ScorerContexts ==
    [app : Apps, has_ai : {TRUE}, ai_confidence : ScorerConfidences,
     learned_from_user : BOOLEAN]
    \cup [app : Apps, has_ai : {FALSE}, ai_confidence : {Rat(0, 1)},
          learned_from_user : BOOLEAN]

\* the keys of command.target
ScorerTargetKeys == {{}, {"text"}, {"element_id"}, {"element_id", "text"}}

ScorerCommands ==
    {AutomationCommand("tap", Target("like button", k, 100, 200), Rat(4, 5), 0,
                       DefaultMaxRetries) : k \in ScorerTargetKeys}

\* the results update_history is given
ScorerResults == {Result(TRUE, "visual_ai_memory"), Result(FALSE, "user_teaching")}

\* the entries n earlier update_history calls leave, every third a success
Recorded(n) == [i \in 1..n |-> [success |-> i % 3 = 0, method |-> "visual_ai_memory"]]

\* the histories the direct calls start from: none, or one or two results
\* short of the cap for every key
RecordedBefore ==
    {[a \in Apps |-> Recorded(n)] : n \in {0, HistoryCap - 2, HistoryCap - 1}}

NoScore == [called |-> FALSE, keys |-> {}, context |-> CHOOSE c \in ScorerContexts : TRUE,
            value |-> Rat(0, 1)]

\* confidence_scorer.score_command(command, context)
ScoreCall(command, context) ==
    /\ scored' = [called |-> TRUE, keys |-> command.target.keys, context |-> context,
                  value |-> ScoreCommand(command, context, history[context.app])]
    /\ UNCHANGED <<mode, stack, elements, history, screens, req, resp, calls, asks,
                   learnedBefore, recorded, nUpdates>>
    /\ UNCHANGED notScorer

\* confidence_scorer.update_history(command, result, context)
UpdateCall(result, context) ==
    /\ nUpdates < MaxUpdates
    /\ nUpdates' = nUpdates + 1
    /\ history' = [history EXCEPT ![context.app] = UpdateHistory(@, result)]
    /\ recorded' = [recorded EXCEPT ![context.app] =
                        Append(@, [success |-> result.success, method |-> result.method])]
    /\ UNCHANGED <<mode, stack, elements, screens, req, resp, calls, asks,
                   learnedBefore, scored>>
    /\ UNCHANGED notScorer

InitScorerVars(h) ==
    /\ recorded = h
    /\ scored = NoScore
    /\ nUpdates = 0

\* the contexts update_history is given: only context['app'] is read
UpdateContexts == {c \in ScorerContexts : ~c.has_ai /\ ~c.learned_from_user}

NextUpdates ==
    \E result \in ScorerResults, context \in UpdateContexts : UpdateCall(result, context)

NextScorer ==
    \/ \E command \in ScorerCommands, context \in ScorerContexts :
          ScoreCall(command, context)
    \/ \E result \in ScorerResults, context \in UpdateContexts :
          UpdateCall(result, context)

----------------------------------------------------------------------------
(* SelfHealingAutomation.execute_automation as a chain of invocations.     *)
(* A frame is one invocation: its command, the layer it stands before      *)
(* (pc), the result it holds and the layers it has attempted (log).        *)

NoRequest == [kind |-> "none", app |-> DetectApp]

NoResponse == [command |-> "none", reason |-> "", confidence |-> Rat(0, 1),
               result |-> NoResult]

Frame(command) ==
    [given |-> command, cmd |-> command, pc |-> "L2", result |-> NoResult,
     log |-> <<>>]

\* one attempted layer: good is the outcome that makes execute_automation
\* return; remembered is what get_element_location answered (Layer 3)
Event(layer, success, good, remembered) ==
    [layer |-> layer, success |-> success, good |-> good, remembered |-> remembered]

Top == stack[Len(stack)]

SetTop(f) == [stack EXCEPT ![Len(stack)] = f]

Running == stack # <<>>

\* PersonalRAG.store_screen adds one record
StoreScreen == screens + 1

\* _store_success: one more screen record
StoreSuccess == StoreScreen

\* PersonalRAG.store_ui_element as called by _learn_from_user (an upsert)
LearnFromUser(command) == elements \cup {command.target.description}

\* whether Layer 2 is attempted
AccessibilityAttempted(command) == RGt(command.confidence, AccessibilityGate)

\* whether Layer 4 is attempted
RetryAllowed(command) == command.retry_count < command.max_retries

\* Layer 2 without its return
Layer2FallsThrough(result) == FALSE

\* whether a Layer 2 result ends the invocation
Layer2Returns(result) == result.success

\* whether a Layer 3 result ends the invocation
Layer3Returns(result, verified) == result.success /\ verified

\* whether the result of the recursive invocation ends the invocation
Layer4Returns(result) == result.success

\* a direct call of execute_automation
Call(command) ==
    /\ ~Running
    /\ screens + 1 <= MaxScreens
    /\ stack' = <<Frame(command)>>
    /\ req' = [kind |-> "direct", app |-> DetectApp]
    /\ resp' = NoResponse
    /\ calls' = 1
    /\ asks' = 0
    /\ learnedBefore' = (command.target.description \in elements)
    /\ UNCHANGED <<mode, elements, history, screens>>
    /\ UNCHANGED notCore

\* Layer 2: accessibility API
Layer2 ==
    /\ Running
    /\ Top.pc = "L2"
    /\ IF AccessibilityAttempted(Top.cmd)
       THEN \E r \in TryAccessibilityApi(Top.cmd) :
              IF Layer2Returns(r)
              THEN /\ screens' = StoreSuccess
                   /\ stack' = SetTop([Top EXCEPT !.pc = "ret", !.result = r,
                          !.log = Append(@, Event("accessibility", r.success, r.success, FALSE))])
              ELSE /\ screens' = screens
                   /\ stack' = SetTop([Top EXCEPT !.pc = "L3", !.result = r,
                          !.log = Append(@, Event("accessibility", r.success, r.success, FALSE))])
       ELSE /\ screens' = screens
            /\ stack' = SetTop([Top EXCEPT !.pc = "L3"])
    /\ UNCHANGED <<mode, elements, history, req, resp, calls, asks, learnedBefore>>
    /\ UNCHANGED notCore

\* the layer name of a _try_visual_ai result
VisualLayer(result) == IF result.method = "visual_ai_memory" THEN "memory" ELSE "model"

\* Layer 3: visual AI, verified when it succeeded
Layer3 ==
    /\ Running
    /\ Top.pc = "L3"
    /\ \E r \in TryVisualAi(Top.cmd) :
         \E v \in (IF r.success THEN VerifyAction ELSE {FALSE}) :
            IF Layer3Returns(r, v)
            THEN /\ screens' = StoreSuccess
                 /\ stack' = SetTop([Top EXCEPT !.pc = "ret", !.result = r,
                        !.log = Append(@, Event(VisualLayer(r), r.success, r.success /\ v,
                                     GetElementLocation(DetectApp, Top.cmd.target.description)))])
            ELSE /\ screens' = screens
                 /\ stack' = SetTop([Top EXCEPT !.pc = "L4", !.result = r,
                        !.log = Append(@, Event(VisualLayer(r), r.success, r.success /\ v,
                                     GetElementLocation(DetectApp, Top.cmd.target.description)))])
    /\ UNCHANGED <<mode, elements, history, req, resp, calls, asks, learnedBefore>>
    /\ UNCHANGED notCore

\* Layer 4: retry_count += 1 and the recursive invocation on the adjusted command
Layer4 ==
    /\ Running
    /\ Top.pc = "L4"
    /\ IF RetryAllowed(Top.cmd)
       THEN LET bumped == [Top.cmd EXCEPT !.retry_count = @ + 1]
            IN /\ stack' = Append(SetTop([Top EXCEPT !.cmd = bumped, !.pc = "L4wait"]),
                                  Frame(AdjustCommand(bumped)))
               /\ calls' = calls + 1
       ELSE /\ stack' = SetTop([Top EXCEPT !.pc = "L5"])
            /\ calls' = calls
    /\ UNCHANGED <<mode, elements, history, screens, req, resp, asks, learnedBefore>>
    /\ UNCHANGED notCore

\* Layer 5: user teaching, learned when the user acted
Layer5 ==
    /\ Running
    /\ Top.pc = "L5"
    /\ asks' = asks + 1
    /\ \E r \in RequestUserTeaching :
         /\ stack' = SetTop([Top EXCEPT !.pc = "ret", !.result = r,
                !.log = Append(@, Event("teaching", r.success, r.success, FALSE))])
         /\ elements' = IF r.success THEN LearnFromUser(Top.cmd) ELSE elements
    /\ UNCHANGED <<mode, history, screens, req, resp, calls, learnedBefore>>
    /\ UNCHANGED notCore

\* a recursive invocation returns into Layer 4 of its caller
ReturnToCaller ==
    /\ Len(stack) > 1
    /\ Top.pc = "ret"
    /\ LET r == Top.result
           caller == stack[Len(stack) - 1]
           rest == SubSeq(stack, 1, Len(stack) - 2)
       IN stack' = Append(rest,
              [caller EXCEPT !.pc = IF Layer4Returns(r) THEN "ret" ELSE "L5",
                             !.result = r,
                             !.log = Append(@, Event("retry", r.success, r.success, FALSE))])
    /\ UNCHANGED <<mode, elements, history, screens, req, resp, calls, asks,
                   learnedBefore>>
    /\ UNCHANGED notCore

\* the outermost invocation returns; process_frame then updates the history
ReturnTop ==
    /\ Len(stack) = 1
    /\ Top.pc = "ret"
    /\ stack' = <<>>
    /\ req' = NoRequest
    /\ IF req.kind = "frame"
       THEN /\ history' = [history EXCEPT ![req.app] = UpdateHistory(@, Top.result)]
            /\ resp' = [command |-> "command", reason |-> "",
                        confidence |-> Top.cmd.confidence, result |-> Top.result]
       ELSE /\ history' = history
            /\ resp' = [command |-> "direct", reason |-> "",
                        confidence |-> Top.cmd.confidence, result |-> Top.result]
    /\ UNCHANGED <<mode, elements, screens, calls, asks, learnedBefore>>
    /\ UNCHANGED notCore

\* the comparison with >= in place of >
ConfidentEnoughOrEqual(score) == ~RGt(ExecuteThreshold, score)

\* process_frame executes the command when command.confidence > 0.7
ConfidentEnough(score) == RGt(score, ExecuteThreshold)

\* JarvisCore.process_frame up to the call of execute_automation, or to its
\* low-confidence return
ProcessFrame(context) ==
    /\ ~Running
    /\ screens + 2 <= MaxScreens
    /\ screens' = StoreScreen
    /\ LET score == ScoreCommand(GenerateCommand, context, history[context.app])
           command == [GenerateCommand EXCEPT !.confidence = score]
       IN /\ IF ConfidentEnough(score)
             THEN /\ stack' = <<Frame(command)>>
                  /\ req' = [kind |-> "frame", app |-> context.app]
                  /\ resp' = NoResponse
             ELSE /\ stack' = <<>>
                  /\ req' = NoRequest
                  /\ resp' = [command |-> "None", reason |-> "Low confidence",
                              confidence |-> score, result |-> NoResult]
          /\ learnedBefore' = (command.target.description \in elements)
    /\ calls' = 1
    /\ asks' = 0
    /\ UNCHANGED <<mode, elements, history>>
    /\ UNCHANGED notCore

DirectCommands ==
    {AutomationCommand("tap", Target(d, k, 100, 200), c, rc, mr) :
        d \in Descriptions, k \in TargetKeys, c \in Confidences,
        rc \in RetryCounts, mr \in MaxRetriesIn}

----------------------------------------------------------------------------
(* Cloud-AI/ai_server.py: POST /frame and GET /analyze *)

\* request threads of the threaded Flask server
Threads == {1, 2}

\* POST /frame requests considered
MaxFrameReqs == 2

\* what base64.b64decode and Image.open make of data['image']: "bad" cannot
\* be decoded, "gray" opens as a single-band image, "blue" is a mostly blue
\* RGB screen, "plain" any other RGB screen
ImageKinds == {"bad", "gray", "blue", "plain"}

FrameNumbers == {7, 10, 30}

\* request.json of a POST /frame: no body (or an empty one), an object
\* without 'image', or an object with 'image' and perhaps 'frame_number'
Body(kind, image, has_fn, fn) ==
    [id |-> 0, kind |-> kind, image |-> image, has_frame_number |-> has_fn,
     frame_number |-> fn]

NoBody == Body("missing", "plain", FALSE, 0)

FrameBodies ==
    {NoBody, Body("noimage", "plain", FALSE, 0)}
        \cup {Body("ok", i, FALSE, 0) : i \in ImageKinds}
        \cup {Body("ok", i, TRUE, n) : i \in ImageKinds, n \in FrameNumbers}

RaceBodies == {Body("ok", "plain", FALSE, 0), Body("ok", "plain", TRUE, 10)}

\* latest_frame = None
NoFrame ==
    [set |-> FALSE, image |-> [id |-> 0, kind |-> "plain"], timestamp |-> 0,
     device_id |-> 0, frame_number |-> 0]

\* the dict bound to latest_frame; image, timestamp and device_id are those
\* of request id
FrameRecord(id, kind, fn) ==
    [set |-> TRUE, image |-> [id |-> id, kind |-> kind], timestamp |-> id,
     device_id |-> id, frame_number |-> fn]

InitialStats == [frames_received |-> 0, commands_sent |-> 0, last_frame_time |-> 0]

NoLocals == [tmp |-> 0, commands |-> <<>>, obs |-> NoFrame]

Response(status, kind, success, frame_id, commands, analysis) ==
    [status |-> status, kind |-> kind, success |-> success,
     frame_id |-> frame_id, commands |-> commands, analysis |-> analysis]

NoReply == Response(0, "none", FALSE, 0, <<>>, NoFrame)

ErrorReply(status) == Response(status, "error", FALSE, 0, <<>>, NoFrame)

\* img_array[:,:,2] needs a third axis
AutomationRaises(image) == image.kind = "gray"

\* metadata.get("frame_number", 0)
MetadataFrameNumber(metadata) ==
    IF metadata.has_frame_number THEN metadata.frame_number ELSE 0

\* `% 10 == 0`, line 134
AutomationTapDue(frame_number) == frame_number % 10 = 0

\* the swipe every 15th frame
AutomationSwipeDueEveryFifteen(frame_number) == frame_number % 15 = 0

\* `% 30 == 0`, line 144
AutomationSwipeDue(frame_number) == frame_number % 30 = 0

\* process_frame_for_automation(image, metadata), frame_number being
\* metadata.get("frame_number", 0)
ProcessFrameForAutomation(image, frame_number) ==
    (IF image.kind = "blue" THEN <<[action |-> "wait"]>> ELSE <<>>)
        \o (IF AutomationTapDue(frame_number) THEN <<[action |-> "tap"]>> ELSE <<>>)
        \o (IF AutomationSwipeDue(frame_number) THEN <<[action |-> "swipe"]>> ELSE <<>>)

\* frame numbers process_frame_for_automation is called with, either side of 0
MaxFrameNumber == 30

\* the metadata of a call: 'frame_number' absent, a number, or a value that
\* is no number (null, a list, an object)
Metadata(has_fn, numeric, fn) ==
    [has_frame_number |-> has_fn, numeric |-> numeric, frame_number |-> fn]

Metadatas ==
    {Metadata(FALSE, FALSE, 0), Metadata(TRUE, FALSE, 0)}
        \cup {Metadata(TRUE, TRUE, n) : n \in (0 - MaxFrameNumber)..MaxFrameNumber}

\* the images of a call: everything Image.open returns
AutomationImages == {[id |-> 0, kind |-> k] : k \in ImageKinds \ {"bad"}}

AutomationInput(called, image, metadata) ==
    [called |-> called, image |-> image, metadata |-> metadata]

NoAutomationInput ==
    AutomationInput(FALSE, [id |-> 0, kind |-> "plain"], Metadata(FALSE, FALSE, 0))

AutomationOutput(raised, commands) == [raised |-> raised, commands |-> commands]

\* `%` of a value that is no number raises TypeError
ModuloRaises(metadata) == metadata.has_frame_number /\ ~metadata.numeric

\* process_frame_for_automation(image, metadata) called on its own
CallProcessFrameForAutomation(image, metadata) ==
    /\ autoIn' = AutomationInput(TRUE, image, metadata)
    /\ autoOut' =
          IF AutomationRaises(image) \/ ModuloRaises(metadata)
          THEN AutomationOutput(TRUE, <<>>)
          ELSE AutomationOutput(FALSE,
                   ProcessFrameForAutomation(image, MetadataFrameNumber(metadata)))
    /\ UNCHANGED notAuto

InitAutoVars ==
    /\ autoIn = NoAutomationInput
    /\ autoOut = AutomationOutput(FALSE, <<>>)

NextAutomation ==
    \E image \in AutomationImages, metadata \in Metadatas :
        CallProcessFrameForAutomation(image, metadata)

\* `if not data:` alone
RejectsOnlyMissing(body) == body.kind = "missing"

\* `if not data or 'image' not in data`
RejectsBody(body) == body.kind \in {"missing", "noimage"}

\* a lock that excludes nobody
LockIgnored == TRUE

\* frame_lock can be acquired
LockFree == frame_lock = 0

\* the POST /frame request thread w is answering (the one just accepted when
\* it is rejected at once), 0 for a GET /analyze
RequestId(w) == IF aPc[w] = "idle" THEN aSerial + 1 ELSE aBody[w].id

\* request id was answered with reply from the statement at label
Answer(id, label, reply) == [id |-> id, at |-> label, reply |-> reply]

Finish(w, reply) ==
    /\ aPc' = [aPc EXCEPT ![w] = "idle"]
    /\ aOut' = [aOut EXCEPT ![w] = reply]
    /\ answered' = IF RequestId(w) = 0 THEN answered
                   ELSE answered \cup {Answer(RequestId(w), aPc[w], reply)}

Goto(w, label) ==
    /\ aPc' = [aPc EXCEPT ![w] = label]
    /\ aOut' = aOut
    /\ answered' = answered

\* receive_frame, lines 63-65
StartFrame(w, body) ==
    /\ aPc[w] = "idle"
    /\ aSerial < MaxFrameReqs
    /\ aSerial' = aSerial + 1
    /\ aBody' = [aBody EXCEPT ![w] = [body EXCEPT !.id = aSerial + 1]]
    /\ aLoc' = [aLoc EXCEPT ![w] = NoLocals]
    /\ IF RejectsBody(body) THEN Finish(w, ErrorReply(400)) ELSE Goto(w, "decode")
    /\ UNCHANGED <<stats, latest_frame, frame_lock, written, lastLocker>>
    /\ UNCHANGED notFrame

\* receive_frame, lines 68-69
Decode(w) ==
    /\ aPc[w] = "decode"
    /\ IF aBody[w].kind # "ok" \/ aBody[w].image = "bad"
       THEN Finish(w, ErrorReply(500))
       ELSE Goto(w, "count_read")
    /\ UNCHANGED <<aBody, aLoc, stats, latest_frame, frame_lock, aSerial, written,
                   lastLocker>>
    /\ UNCHANGED notFrame

\* stats["frames_received"] += 1 reads the counter ...
CountRead(w) ==
    /\ aPc[w] = "count_read"
    /\ aLoc' = [aLoc EXCEPT ![w].tmp = stats.frames_received]
    /\ Goto(w, "count_write")
    /\ UNCHANGED <<aBody, stats, latest_frame, frame_lock, aSerial, written, lastLocker>>
    /\ UNCHANGED notFrame

\* ... and writes it back
CountWrite(w) ==
    /\ aPc[w] = "count_write"
    /\ stats' = [stats EXCEPT !.frames_received = aLoc[w].tmp + 1]
    /\ Goto(w, "time")
    /\ UNCHANGED <<aBody, aLoc, latest_frame, frame_lock, aSerial, written, lastLocker>>
    /\ UNCHANGED notFrame

\* stats["last_frame_time"] = datetime.now()
SetTime(w) ==
    /\ aPc[w] = "time"
    /\ stats' = [stats EXCEPT !.last_frame_time = aBody[w].id]
    /\ Goto(w, "lock")
    /\ UNCHANGED <<aBody, aLoc, latest_frame, frame_lock, aSerial, written, lastLocker>>
    /\ UNCHANGED notFrame

\* with frame_lock:
Lock(w) ==
    /\ aPc[w] = "lock"
    /\ LockFree
    /\ frame_lock' = w
    /\ lastLocker' = aBody[w].id
    /\ Goto(w, "store")
    /\ UNCHANGED <<aBody, aLoc, stats, latest_frame, aSerial, written>>
    /\ UNCHANGED notFrame

\* latest_frame = {...} and the end of the with block
Store(w) ==
    /\ aPc[w] = "store"
    /\ LET fn == IF aBody[w].has_frame_number THEN aBody[w].frame_number
                 ELSE stats.frames_received
           record == FrameRecord(aBody[w].id, aBody[w].image, fn)
       IN /\ latest_frame' = record
          /\ written' = written \cup {record}
    /\ frame_lock' = 0
    /\ Goto(w, "automation")
    /\ UNCHANGED <<aBody, aLoc, stats, aSerial, lastLocker>>
    /\ UNCHANGED notFrame

\* commands = process_frame_for_automation(image, data)
Automation(w) ==
    /\ aPc[w] = "automation"
    /\ LET image == [id |-> aBody[w].id, kind |-> aBody[w].image]
           commands == ProcessFrameForAutomation(image, MetadataFrameNumber(aBody[w]))
       IN IF AutomationRaises(image)
          THEN /\ Finish(w, ErrorReply(500))
               /\ aLoc' = aLoc
          ELSE /\ aLoc' = [aLoc EXCEPT ![w].commands = commands]
               /\ Goto(w, IF commands # <<>> THEN "sent_read" ELSE "respond")
    /\ UNCHANGED <<aBody, stats, latest_frame, frame_lock, aSerial, written, lastLocker>>
    /\ UNCHANGED notFrame

\* stats["commands_sent"] += len(commands) reads the counter ...
SentRead(w) ==
    /\ aPc[w] = "sent_read"
    /\ aLoc' = [aLoc EXCEPT ![w].tmp = stats.commands_sent]
    /\ Goto(w, "sent_write")
    /\ UNCHANGED <<aBody, stats, latest_frame, frame_lock, aSerial, written, lastLocker>>
    /\ UNCHANGED notFrame

\* ... and writes it back
SentWrite(w) ==
    /\ aPc[w] = "sent_write"
    /\ stats' = [stats EXCEPT !.commands_sent = aLoc[w].tmp + Len(aLoc[w].commands)]
    /\ Goto(w, "respond")
    /\ UNCHANGED <<aBody, aLoc, latest_frame, frame_lock, aSerial, written, lastLocker>>
    /\ UNCHANGED notFrame

\* receive_frame, lines 94-98
Respond(w) ==
    /\ aPc[w] = "respond"
    /\ Finish(w, Response(200, "frame", TRUE, stats.frames_received,
                          aLoc[w].commands, NoFrame))
    /\ UNCHANGED <<aBody, aLoc, stats, latest_frame, frame_lock, aSerial, written,
                   lastLocker>>
    /\ UNCHANGED notFrame

\* GET /analyze arrives
StartAnalyze(w) ==
    /\ aPc[w] = "idle"
    /\ aBody' = [aBody EXCEPT ![w] = NoBody]
    /\ aLoc' = [aLoc EXCEPT ![w] = NoLocals]
    /\ Goto(w, "a_lock")
    /\ UNCHANGED <<stats, latest_frame, frame_lock, aSerial, written, lastLocker>>
    /\ UNCHANGED notFrame

\* analyze_latest: with frame_lock:
AnalyzeLock(w) ==
    /\ aPc[w] = "a_lock"
    /\ LockFree
    /\ frame_lock' = w
    /\ Goto(w, "a_check")
    /\ UNCHANGED <<aBody, aLoc, stats, latest_frame, aSerial, written, lastLocker>>
    /\ UNCHANGED notFrame

\* `if not latest_frame:` without the test
NoFrameUnchecked == FALSE

\* `if not latest_frame:`
NoFrameYet == ~latest_frame.set

\* analyze_latest, lines 173-176
AnalyzeCheck(w) ==
    /\ aPc[w] = "a_check"
    /\ IF NoFrameYet
       THEN /\ Finish(w, ErrorReply(404))
            /\ frame_lock' = 0
            /\ aLoc' = aLoc
       ELSE /\ aLoc' = [aLoc EXCEPT ![w].obs.set = TRUE,
                                    ![w].obs.image = latest_frame.image]
            /\ Goto(w, "a_timestamp")
            /\ frame_lock' = frame_lock
    /\ UNCHANGED <<aBody, stats, latest_frame, aSerial, written, lastLocker>>
    /\ UNCHANGED notFrame

\* "timestamp": latest_frame["timestamp"]
AnalyzeTimestamp(w) ==
    /\ aPc[w] = "a_timestamp"
    /\ aLoc' = [aLoc EXCEPT ![w].obs.timestamp = latest_frame.timestamp]
    /\ Goto(w, "a_device")
    /\ UNCHANGED <<aBody, stats, latest_frame, frame_lock, aSerial, written, lastLocker>>
    /\ UNCHANGED notFrame

\* "device_id": latest_frame["device_id"]
AnalyzeDevice(w) ==
    /\ aPc[w] = "a_device"
    /\ aLoc' = [aLoc EXCEPT ![w].obs.device_id = latest_frame.device_id]
    /\ Goto(w, "a_number")
    /\ UNCHANGED <<aBody, stats, latest_frame, frame_lock, aSerial, written, lastLocker>>
    /\ UNCHANGED notFrame

\* "frame_number": latest_frame["frame_number"]
AnalyzeNumber(w) ==
    /\ aPc[w] = "a_number"
    /\ aLoc' = [aLoc EXCEPT ![w].obs.frame_number = latest_frame.frame_number]
    /\ Goto(w, "a_reply")
    /\ UNCHANGED <<aBody, stats, latest_frame, frame_lock, aSerial, written, lastLocker>>
    /\ UNCHANGED notFrame

\* analyze_latest, lines 183-190; get_dominant_colors reshapes to (-1, 3),
\* and nothing in analyze_latest catches what it raises
AnalyzeReply(w) ==
    /\ aPc[w] = "a_reply"
    /\ LET obs == aLoc[w].obs
       IN IF AutomationRaises(obs.image)
          THEN Finish(w, ErrorReply(500))
          ELSE Finish(w, Response(200, "analysis", FALSE, 0,
                         ProcessFrameForAutomation(latest_frame.image,
                                                   latest_frame.frame_number),
                         obs))
    /\ frame_lock' = 0
    /\ UNCHANGED <<aBody, aLoc, stats, latest_frame, aSerial, written, lastLocker>>
    /\ UNCHANGED notFrame

ThreadStep(w) ==
    \/ Decode(w)
    \/ CountRead(w)
    \/ CountWrite(w)
    \/ SetTime(w)
    \/ Lock(w)
    \/ Store(w)
    \/ Automation(w)
    \/ SentRead(w)
    \/ SentWrite(w)
    \/ Respond(w)
    \/ StartAnalyze(w)
    \/ AnalyzeLock(w)
    \/ AnalyzeCheck(w)
    \/ AnalyzeTimestamp(w)
    \/ AnalyzeDevice(w)
    \/ AnalyzeNumber(w)
    \/ AnalyzeReply(w)

InitFrameVars ==
    /\ aPc = [w \in Threads |-> "idle"]
    /\ aBody = [w \in Threads |-> NoBody]
    /\ aLoc = [w \in Threads |-> NoLocals]
    /\ stats = InitialStats
    /\ latest_frame = NoFrame
    /\ frame_lock = 0
    /\ aOut = [w \in Threads |-> NoReply]
    /\ aSerial = 0
    /\ written = {}
    /\ lastLocker = 0
    /\ answered = {}

\* one request at a time
NextFrame ==
    \/ \E body \in FrameBodies : StartFrame(1, body)
    \/ ThreadStep(1)

\* requests served by two threads at once
NextRace ==
    \/ \E w \in Threads, body \in RaceBodies : StartFrame(w, body)
    \/ \E w \in Threads : ThreadStep(w)


----------------------------------------------------------------------------
(* The frame servers, one request at a time *)

\* requests considered across the servers
MaxRequests == 1

\* requests considered when the rolling histories fill up
MaxHistReqs == 11

\* how far the clock is followed
MaxClock == 7

\* POST /broadcast-frame and GET /test-command requests of ai_server_example.py
MaxExampleReqs == 2

Devices == {"unknown", "iphone-1"}

Command(kind) == [action |-> kind]

Commands(kinds) == [i \in 1..Len(kinds) |-> Command(kinds[i])]

When(condition, kind) == IF condition THEN <<Command(kind)>> ELSE <<>>

\* what a server answered: the status, whether the body says success, whether it
\* carries str(e), the commands returned, what the model had listed, how many
\* of the commands are the model's own dicts, how many commands were queued,
\* and whether decoding or analysing the image had failed
Reply(server, status, success, error, commands, listed, copied, queued, failed) ==
    [server |-> server, status |-> status, success |-> success, error |-> error,
     commands |-> commands, listed |-> listed, copied |-> copied,
     queued |-> queued, failed |-> failed]

NoReplyYet == Reply("none", 0, FALSE, FALSE, <<>>, <<>>, 0, 0, "none")

\* `return jsonify({"error": ...}), 400`
Rejected(server) == Reply(server, 400, FALSE, TRUE, <<>>, <<>>, 0, 0, "none")

\* `except Exception as e: return jsonify({"error": str(e)}), 500`
Caught(server, failed) == Reply(server, 500, FALSE, TRUE, <<>>, <<>>, 0, 0, failed)

\* seq[:n]
FirstEntries(seq, n) == IF Len(seq) <= n THEN seq ELSE SubSeq(seq, 1, n)

\* seq[-n:]
LastEntries(seq, n) == IF Len(seq) <= n THEN seq ELSE SubSeq(seq, Len(seq) - n + 1, Len(seq))

\* ---- Cloud-AI/ai_server_qwen_ultimate.py ----

\* interaction_history[-10:]
HistoryKeep == 10

\* cmd_data.get("action", "tap") of a command the reasoning model lists
ModelActions ==
    {"absent", "tap", "swipe", "scroll", "type", "wait", "back", "home", "long_press"}

ActionLists ==
    {<<>>} \cup {<<a>> : a \in ModelActions}
           \cup {<<"scroll", "home">>, <<"long_press", "back">>}

\* _analyze_with_vision raises, or finds elements of which one is clickable
\* with bounds, or none is
QwenVisions ==
    {[kind |-> "raises", clickable |-> FALSE], [kind |-> "ok", clickable |-> TRUE],
     [kind |-> "ok", clickable |-> FALSE]}

\* _reason_about_screen raises, or the model's text has no braces, or has
\* braces around invalid JSON, or is JSON listing commands
QwenReasonings ==
    {[kind |-> k, actions |-> <<>>] : k \in {"raises", "nojson", "badjson"}}
        \cup {[kind |-> "json", actions |-> l] : l \in ActionLists}

\* _create_command without its final `return None`
CreateCommandUnchecked(action) == IF action = "absent" THEN "tap" ELSE action

\* _create_command: the action of the command made, "None" when none is made
CreateCommand(action) ==
    CASE action \in {"absent", "tap"} -> "tap"
      [] action \in {"swipe", "scroll"} -> "swipe"
      [] action = "type" -> "type"
      [] action = "wait" -> "wait"
      [] action = "back" -> "back"
      [] OTHER -> "None"

CreateFallbackCommand(vision) == IF vision.clickable THEN "tap" ELSE "swipe"

RECURSIVE CreateCommands(_)
\* the loop of _parse_reasoning_response over parsed.get("commands", [])
CreateCommands(actions) ==
    IF actions = <<>> THEN <<>>
    ELSE LET made == CreateCommand(Head(actions))
             rest == CreateCommands(Tail(actions))
         IN IF made = "None" THEN rest ELSE <<Command(made)>> \o rest

ParseReasoningResponse(reasoning, vision) ==
    CASE reasoning.kind = "json" -> CreateCommands(reasoning.actions)
      [] reasoning.kind = "badjson" -> <<Command(CreateFallbackCommand(vision))>>
      [] OTHER -> <<>>

\* the try block of analyze_screen ends in its except clause
QwenAnalysisRaises(vision, reasoning) ==
    vision.kind = "raises" \/ reasoning.kind = "raises"

\* POST /frame of ai_server_qwen_ultimate.py: process_frame and the
\* analyze_screen it calls
QwenFrame(body, vision, reasoning) ==
    /\ nreq' = nreq + 1
    /\ IF RejectsBody(body)
       THEN /\ srvOut' = Rejected("qwen_ultimate")
            /\ UNCHANGED <<interaction_history, qAppends>>
       ELSE IF body.image = "bad"
       THEN /\ srvOut' = Caught("qwen_ultimate", "decode")
            /\ UNCHANGED <<interaction_history, qAppends>>
       ELSE IF QwenAnalysisRaises(vision, reasoning)
       THEN /\ srvOut' = Reply("qwen_ultimate", 200, TRUE, FALSE, <<>>,
                               reasoning.actions, 0, 0, "analysis")
            /\ UNCHANGED <<interaction_history, qAppends>>
       ELSE LET commands == ParseReasoningResponse(reasoning, vision)
                entry == [action_taken |-> IF commands # <<>> THEN commands[1].action
                                           ELSE "None",
                          n |-> qAppends + 1]
            IN /\ interaction_history' =
                      LastEntries(Append(interaction_history, entry), HistoryKeep)
               /\ qAppends' = qAppends + 1
               /\ srvOut' = Reply("qwen_ultimate", 200, TRUE, FALSE, commands,
                                  reasoning.actions, 0, 0, "none")
    /\ UNCHANGED <<user_sessions, sessions, now, local_server>>
    /\ UNCHANGED notSrv

\* POST /reset of ai_server_qwen_ultimate.py
QwenReset ==
    /\ nreq' = nreq + 1
    /\ interaction_history' = <<>>
    /\ qAppends' = 0
    /\ srvOut' = Reply("qwen_ultimate", 200, TRUE, FALSE, <<>>, <<>>, 0, 0, "none")
    /\ UNCHANGED <<user_sessions, sessions, now, local_server>>
    /\ UNCHANGED notSrv

\* ---- Cloud-AI/ai_vision_server_2025.py ----

\* session["context"][-10:]
ContextKeep == 10

\* words of the model's text that _parse_vision_response looks for
VisionWords == {"login", "button", "list", "input", "tab 1"}

\* the "commands" of the JSON in the model's text, by their actions
VisionListed == {<<>>, <<"tap">>, <<"home">>, <<"scroll", "long_press">>}

\* the analysis raises, or the model's text goes through
\* _parse_vision_response, or the fallback model gives a caption
VisionAnswers ==
    {[kind |-> "raises", listed |-> <<>>, words |-> {}]}
        \cup {[kind |-> "reply", listed |-> l, words |-> w] :
                l \in VisionListed,
                w \in {s \in SUBSET VisionWords : Cardinality(s) <= 1}
                          \cup {{"list", "input"}}}
        \cup {[kind |-> "caption", listed |-> <<>>, words |-> w] :
                w \in {{}, {"button"}}}

\* _parse_vision_response: parsed["commands"] as the model gave them, then a
\* command for each group of words found
ParseVisionResponse(answer) ==
    Commands(answer.listed)
        \o When("login" \in answer.words, "tap")
        \o When("button" \in answer.words, "tap")
        \o When("list" \in answer.words, "swipe")
        \o When("input" \in answer.words, "type")
        \o When("tab 1" \in answer.words, "tap")

AnalyzeWithFallback(answer) == When("button" \in answer.words, "tap")

\* VisionAI.analyze_screen: result["commands"]
VisionCommands(answer) ==
    CASE answer.kind = "reply" -> ParseVisionResponse(answer)
      [] answer.kind = "caption" -> AnalyzeWithFallback(answer)
      [] OTHER -> <<>>

\* what the analysis of a frame may answer when the threads are followed
SessionAnswers ==
    {[kind |-> "reply", listed |-> <<>>, words |-> {}],
     [kind |-> "reply", listed |-> <<"home">>, words |-> {"list"}]}

NoVisionSession ==
    [exists |-> FALSE, frames_received |-> 0, last_frame |-> 0, context |-> <<>>,
     appends |-> 0]

\* POST /frame of ai_vision_server_2025.py.  When the last action of the
\* context is a tap the handler analyses the frame a second time and keeps
\* only that result; answer is the analysis it keeps.
VisionFrame(body, device, answer) ==
    /\ nreq' = nreq + 1
    /\ IF RejectsBody(body)
       THEN /\ srvOut' = Rejected("vision_2025")
            /\ user_sessions' = user_sessions
       ELSE IF body.image = "bad"
       THEN /\ srvOut' = Caught("vision_2025", "decode")
            /\ user_sessions' = user_sessions
       ELSE LET session == user_sessions[device]
                commands == VisionCommands(answer)
                entry == [action |-> commands[1].action, n |-> session.appends + 1]
                copied == IF answer.kind = "reply" THEN Len(answer.listed) ELSE 0
            IN /\ user_sessions' =
                      [user_sessions EXCEPT ![device] =
                          [exists |-> TRUE,
                           frames_received |-> session.frames_received + 1,
                           last_frame |-> now,
                           context |-> IF commands # <<>>
                                       THEN LastEntries(Append(session.context, entry),
                                                        ContextKeep)
                                       ELSE session.context,
                           appends |-> IF commands # <<>> THEN session.appends + 1
                                       ELSE session.appends]]
               /\ srvOut' = Reply("vision_2025", 200, TRUE, FALSE, commands,
                                  answer.listed, copied, 0,
                                  IF answer.kind = "raises" THEN "analysis" ELSE "none")
    /\ UNCHANGED <<interaction_history, qAppends, sessions, now, local_server>>
    /\ UNCHANGED notSrv

\* ---- Cloud-AI/ai_vision_server_2025.py, its request threads interleaved ----

\* POST /frame requests the threads take up
MaxSessionReqs == 3

NoVisionRequest == [kind |-> "none", device |-> "unknown", image |-> "plain"]

\* request.json of a POST /frame: nothing, or an object with an image that
\* decodes or does not and perhaps a device_id
VisionRequests ==
    {[kind |-> "missing", device |-> "unknown", image |-> "plain"]}
        \cup {[kind |-> "ok", device |-> d, image |-> i] :
                 d \in Devices, i \in {"bad", "plain"}}

\* `with session_lock:` entered whoever holds the lock
SessionLockIgnored == TRUE

\* `with session_lock:` can be entered
SessionLockFree == session_lock = 0

VGoto(w, label) == vPc' = [vPc EXCEPT ![w] = label]

\* the session a thread works on
SessionOf(w) == user_sessions[vReq[w].device]

\* receive_frame, lines 382-383
VisionStart(w, request) ==
    /\ vPc[w] = "idle"
    /\ vStarted < MaxSessionReqs
    /\ vStarted' = vStarted + 1
    /\ vReq' = [vReq EXCEPT ![w] = request]
    /\ IF request.kind = "missing" THEN VGoto(w, "idle") ELSE VGoto(w, "v_decode")
    /\ UNCHANGED <<vTmp, session_lock, decoded, created, reported>>
    /\ UNCHANGED srvVars
    /\ UNCHANGED notVision

\* lines 385-389: the image is decoded, device_id read
VisionDecode(w) ==
    /\ vPc[w] = "v_decode"
    /\ IF vReq[w].image = "bad"
       THEN /\ VGoto(w, "idle")
            /\ decoded' = decoded
       ELSE /\ VGoto(w, "v_lock")
            /\ decoded' = [decoded EXCEPT ![vReq[w].device] = @ + 1]
    /\ UNCHANGED <<vReq, vTmp, session_lock, created, reported, vStarted>>
    /\ UNCHANGED srvVars
    /\ UNCHANGED notVision

\* `with session_lock:` of receive_frame
VisionLock(w) ==
    /\ vPc[w] = "v_lock"
    /\ SessionLockFree
    /\ session_lock' = w
    /\ VGoto(w, "v_check")
    /\ UNCHANGED <<vReq, vTmp, decoded, created, reported, vStarted>>
    /\ UNCHANGED srvVars
    /\ UNCHANGED notVision

\* `if device_id not in user_sessions:`
VisionCheck(w) ==
    /\ vPc[w] = "v_check"
    /\ IF SessionOf(w).exists THEN VGoto(w, "v_read") ELSE VGoto(w, "v_create")
    /\ UNCHANGED <<vReq, vTmp, session_lock, decoded, created, reported, vStarted>>
    /\ UNCHANGED srvVars
    /\ UNCHANGED notVision

\* `user_sessions[device_id] = {...}`
VisionCreate(w) ==
    /\ vPc[w] = "v_create"
    /\ user_sessions' = [user_sessions EXCEPT ![vReq[w].device] =
                             [NoVisionSession EXCEPT !.exists = TRUE]]
    /\ created' = [created EXCEPT ![vReq[w].device] = @ + 1]
    /\ VGoto(w, "v_read")
    /\ UNCHANGED <<vReq, vTmp, session_lock, decoded, reported, vStarted>>
    /\ UNCHANGED <<interaction_history, qAppends, sessions, now, local_server, srvOut,
                   nreq>>
    /\ UNCHANGED notVision

\* `session["frames_received"] += 1`: the read
VisionRead(w) ==
    /\ vPc[w] = "v_read"
    /\ vTmp' = [vTmp EXCEPT ![w] = SessionOf(w).frames_received]
    /\ VGoto(w, "v_write")
    /\ UNCHANGED <<vReq, session_lock, decoded, created, reported, vStarted>>
    /\ UNCHANGED srvVars
    /\ UNCHANGED notVision

\* `session["frames_received"] += 1`: the write
VisionWrite(w) ==
    /\ vPc[w] = "v_write"
    /\ user_sessions' = [user_sessions EXCEPT ![vReq[w].device].frames_received =
                             vTmp[w] + 1]
    /\ VGoto(w, "v_time")
    /\ UNCHANGED <<vReq, vTmp, session_lock, decoded, created, reported, vStarted>>
    /\ UNCHANGED <<interaction_history, qAppends, sessions, now, local_server, srvOut,
                   nreq>>
    /\ UNCHANGED notVision

\* `session["last_frame"] = datetime.now()` and the end of the with block
VisionTime(w) ==
    /\ vPc[w] = "v_time"
    /\ user_sessions' = [user_sessions EXCEPT ![vReq[w].device].last_frame = now]
    /\ session_lock' = IF session_lock = w THEN 0 ELSE session_lock
    /\ VGoto(w, "v_analyze")
    /\ UNCHANGED <<vReq, vTmp, decoded, created, reported, vStarted>>
    /\ UNCHANGED <<interaction_history, qAppends, sessions, now, local_server, srvOut,
                   nreq>>
    /\ UNCHANGED notVision

\* lines 404-444: the analysis, the context and the response
VisionAnalyze(w, answer) ==
    /\ vPc[w] = "v_analyze"
    /\ LET session == SessionOf(w)
           commands == VisionCommands(answer)
           entry == [action |-> commands[1].action, n |-> session.appends + 1]
       IN user_sessions' =
             IF commands # <<>>
             THEN [user_sessions EXCEPT
                      ![vReq[w].device].context =
                          LastEntries(Append(session.context, entry), ContextKeep),
                      ![vReq[w].device].appends = session.appends + 1]
             ELSE user_sessions
    /\ VGoto(w, "idle")
    /\ UNCHANGED <<vReq, vTmp, session_lock, decoded, created, reported, vStarted>>
    /\ UNCHANGED <<interaction_history, qAppends, sessions, now, local_server, srvOut,
                   nreq>>
    /\ UNCHANGED notVision

\* GET /sessions arrives
SessionsStart(w) ==
    /\ vPc[w] = "idle"
    /\ vReq' = [vReq EXCEPT ![w] = NoVisionRequest]
    /\ VGoto(w, "s_lock")
    /\ UNCHANGED <<vTmp, session_lock, decoded, created, reported, vStarted>>
    /\ UNCHANGED srvVars
    /\ UNCHANGED notVision

\* `with session_lock:` of get_sessions
SessionsLock(w) ==
    /\ vPc[w] = "s_lock"
    /\ SessionLockFree
    /\ session_lock' = w
    /\ VGoto(w, "s_list")
    /\ UNCHANGED <<vReq, vTmp, decoded, created, reported, vStarted>>
    /\ UNCHANGED srvVars
    /\ UNCHANGED notVision

\* get_sessions, lines 476-483, and the response
SessionsList(w) ==
    /\ vPc[w] = "s_list"
    /\ reported' = [d \in Devices |->
                       IF user_sessions[d].exists THEN user_sessions[d].frames_received
                       ELSE -1]
    /\ session_lock' = IF session_lock = w THEN 0 ELSE session_lock
    /\ VGoto(w, "idle")
    /\ UNCHANGED <<vReq, vTmp, decoded, created, vStarted>>
    /\ UNCHANGED srvVars
    /\ UNCHANGED notVision

\* a thread of ai_vision_server_2025.py takes a step
VisionStep(w) ==
    \/ VisionDecode(w)
    \/ VisionLock(w)
    \/ VisionCheck(w)
    \/ VisionCreate(w)
    \/ VisionRead(w)
    \/ VisionWrite(w)
    \/ VisionTime(w)
    \/ \E answer \in SessionAnswers : VisionAnalyze(w, answer)
    \/ SessionsStart(w)
    \/ SessionsLock(w)
    \/ SessionsList(w)

InitVisVars ==
    /\ vPc = [w \in Threads |-> "idle"]
    /\ vReq = [w \in Threads |-> NoVisionRequest]
    /\ vTmp = [w \in Threads |-> 0]
    /\ session_lock = 0
    /\ decoded = [d \in Devices |-> 0]
    /\ created = [d \in Devices |-> 0]
    /\ reported = [d \in Devices |-> -1]
    /\ vStarted = 0

NextSessions ==
    \/ \E w \in Threads, request \in VisionRequests : VisionStart(w, request)
    \/ \E w \in Threads : VisionStep(w)

\* ---- Cloud-AI/lifeos_prototype.py ----

\* POST /intake requests followed
MaxIntakes == 2

\* app_priority of generate_next_shortcut
AppPriority ==
    <<"slack", "outlook", "teams", "gmail", "notion", "linear", "salesforce",
      "messages", "whatsapp", "calendar", "reminders">>

\* text contains word, for the words detect_app_source looks for
Contains(text, word) == text = word \/ (text = "ubereats" /\ word = "uber")

\* detect_app_source(data), source and content lowered already
DetectAppSource(source, content) ==
    CASE Contains(source, "slack") \/ Contains(content, "slack") -> "slack"
      [] Contains(source, "teams") \/ Contains(content, "teams") -> "teams"
      [] Contains(source, "outlook") \/ Contains(content, "outlook") -> "outlook"
      [] Contains(source, "gmail") \/ Contains(content, "gmail") -> "gmail"
      [] Contains(source, "notion") \/ Contains(content, "notion") -> "notion"
      [] Contains(source, "linear") \/ Contains(content, "jira") -> "linear"
      [] Contains(source, "salesforce") \/ Contains(content, "sfdc") -> "salesforce"
      [] Contains(source, "hubspot") -> "hubspot"
      [] Contains(content, "imessage") \/ Contains(source, "messages") -> "messages"
      [] Contains(source, "whatsapp") -> "whatsapp"
      [] Contains(source, "telegram") -> "telegram"
      [] Contains(source, "discord") -> "discord"
      [] Contains(content, "calendar") \/ Contains(content, "event") -> "calendar"
      [] Contains(content, "reminder") \/ Contains(content, "todo") -> "reminders"
      [] Contains(content, "spotify") \/ Contains(content, "music") -> "music"
      [] Contains(source, "uber") \/ Contains(source, "lyft") -> "rideshare"
      [] Contains(source, "doordash") \/ Contains(source, "ubereats") -> "delivery"
      [] OTHER -> "unknown"

\* generate_next_shortcut looking at the current app instead of the set
RECURSIVE FirstOtherThan(_, _, _)
FirstOtherThan(i, detected, current_app) ==
    IF i > Len(AppPriority) THEN "advanced"
    ELSE IF AppPriority[i] # current_app THEN AppPriority[i]
    ELSE FirstOtherThan(i + 1, detected, current_app)

\* the loop of generate_next_shortcut from position i on
RECURSIVE FirstUndetected(_, _, _)
FirstUndetected(i, detected, current_app) ==
    IF i > Len(AppPriority) THEN "advanced"
    ELSE IF AppPriority[i] \notin detected THEN AppPriority[i]
    ELSE FirstUndetected(i + 1, detected, current_app)

\* generate_next_shortcut(user_id, current_app): the 'app' of what it returns
GenerateNextShortcut(detected, current_app) == FirstUndetected(1, detected, current_app)

\* the 'source' and 'content' of the requests
IntakeSources ==
    {"", "slack", "outlook", "teams", "gmail", "notion", "linear", "salesforce",
     "hubspot", "messages", "whatsapp", "ubereats"}
IntakeContents == {"", "calendar", "todo", "slack"}

\* request.json of a POST /intake: nothing, or an object
IntakeRequest(kind, device_id, source, content) ==
    [kind |-> kind, device_id |-> device_id, source |-> source, content |-> content]

NoIntake == IntakeRequest("missing", "unknown", "", "")

IntakeRequests ==
    {NoIntake}
        \cup {IntakeRequest("ok", d, src, c) :
                 d \in Devices, src \in IntakeSources, c \in IntakeContents}

NoUserContext == [exists |-> FALSE, apps_detected |-> {}, last_seen |-> 0]

\* the first n apps of app_priority
FirstApps(n) == {AppPriority[i] : i \in 1..n}

\* what earlier requests may have left for a user: nothing, the first nine
\* or ten apps of the list, or all of the list but "teams"
DetectedBefore ==
    {NoUserContext}
        \cup {[exists |-> TRUE, apps_detected |-> a, last_seen |-> 0] :
                 a \in {FirstApps(9), FirstApps(10), FirstApps(11) \ {"teams"}}}

IntakeResponse(status, detected_app, next_app) ==
    [status |-> status, detected_app |-> detected_app, next_app |-> next_app]

NoIntakeResponse == IntakeResponse(0, "none", "none")

\* POST /intake; `data.get` on None raises
Intake(request) ==
    /\ nIntakes < MaxIntakes
    /\ nIntakes' = nIntakes + 1
    /\ lifeIn' = request
    /\ IF request.kind = "missing"
       THEN /\ lifeOut' = IntakeResponse(500, "none", "none")
            /\ USER_CONTEXTS' = USER_CONTEXTS
       ELSE LET user_id == request.device_id
                app_source == DetectAppSource(request.source, request.content)
                detected == USER_CONTEXTS[user_id].apps_detected \cup {app_source}
            IN /\ USER_CONTEXTS' =
                      [USER_CONTEXTS EXCEPT ![user_id] =
                          [exists |-> TRUE, apps_detected |-> detected, last_seen |-> now]]
               /\ lifeOut' = IntakeResponse(200, app_source,
                                            GenerateNextShortcut(detected, app_source))
    /\ UNCHANGED notLife

InitLifeVars(contexts) ==
    /\ USER_CONTEXTS = contexts
    /\ lifeIn = NoIntake
    /\ lifeOut = NoIntakeResponse
    /\ nIntakes = 0

NextLife == \E request \in IntakeRequests : Intake(request)

\* ---- iOS-App/MirrorApp/ai_server_example.py ----

\* `time.time() - last_scroll > 5`
ScrollInterval == 5

\* request.json of a POST /broadcast-frame: nothing, an object without
\* 'frame', or an object whose frame cannot be decoded, opens as a
\* single-band image, or is an RGB screen
BroadcastBodies == {"missing", "noframe", "bad", "gray", "plain"}

Screen(ocr_failed, app, confirms, delivered, buttons) ==
    [ocr_failed |-> ocr_failed, app |-> app, confirms |-> confirms,
     delivered |-> delivered, buttons |-> buttons]

\* what analyze_screen returns: whether pytesseract raised, the app the text
\* names, the lines containing "confirm", whether a line contains
\* "delivered", whether a button-like contour was found
ExampleScreens ==
    {Screen(TRUE, "Unknown", 0, FALSE, FALSE), Screen(FALSE, "Unknown", 0, FALSE, TRUE),
     Screen(FALSE, "TikTok", 0, FALSE, FALSE)}
        \cup {Screen(FALSE, "Uber", c, FALSE, b) : c \in 0..2, b \in BOOLEAN}
        \cup {Screen(FALSE, "iMessage", 0, d, FALSE) : d \in BOOLEAN}

NoExampleSession ==
    [exists |-> FALSE, has_session_id |-> FALSE, frames_received |-> 0,
     last_timestamp |-> 0, commands_queue |-> <<>>, scrolled |-> FALSE,
     last_tiktok_scroll |-> 0]

\* the TikTok branch of make_decision without its test of the clock
ScrollAlwaysDue(session) == TRUE

\* the TikTok branch of make_decision scrolls
ScrollDue(session) ==
    ~session.scrolled \/ now - session.last_tiktok_scroll > ScrollInterval

\* make_decision(screen_analysis, context): the commands
MakeDecision(screen, session) ==
    CASE screen.app = "Uber" ->
            IF screen.buttons THEN [i \in 1..screen.confirms |-> Command("tap")] ELSE <<>>
      [] screen.app = "iMessage" -> When(screen.delivered, "home")
      [] screen.app = "TikTok" -> When(ScrollDue(session), "swipe")
      [] OTHER -> <<>>

NoDecision == [n |-> 0, device |-> "none", app |-> "none", at |-> 0]

\* POST /broadcast-frame; the clock read that make_decision stores as
\* last_tiktok_scroll comes `late` after the one it compares
BroadcastFrame(body, device, screen, late) ==
    /\ nreq' = nreq + 1
    /\ now + late <= MaxClock
    /\ IF body \in {"missing", "noframe", "bad", "gray"}
       THEN /\ srvOut' = Caught("example", "decode")
            /\ sessions' = sessions
            /\ now' = now
            /\ UNCHANGED <<swipeTimes, decided>>
       ELSE LET session == sessions[device]
                commands == MakeDecision(screen, session)
                scrolls == screen.app = "TikTok" /\ ScrollDue(session)
            IN /\ now' = IF scrolls THEN now + late ELSE now
               /\ swipeTimes' = IF scrolls
                                THEN [swipeTimes EXCEPT ![device] = Append(@, now)]
                                ELSE swipeTimes
               /\ decided' = [n |-> decided.n + 1, device |-> device,
                              app |-> screen.app, at |-> now]
               /\ sessions' =
                      [sessions EXCEPT ![device] =
                          [exists |-> TRUE,
                           has_session_id |-> session.has_session_id,
                           frames_received |-> session.frames_received + 1,
                           last_timestamp |-> now,
                           commands_queue |-> session.commands_queue \o commands,
                           scrolled |-> session.scrolled \/ scrolls,
                           last_tiktok_scroll |-> IF scrolls THEN now + late
                                                  ELSE session.last_tiktok_scroll]]
               /\ srvOut' = Reply("example", 200, TRUE, FALSE, <<>>, <<>>, 0,
                                  Len(commands),
                                  IF screen.ocr_failed THEN "analysis" ELSE "none")
    /\ polled' = "none"
    /\ UNCHANGED <<interaction_history, qAppends, user_sessions, local_server>>
    /\ UNCHANGED notExample

\* GET /commands sent by the client of `device`: the session that has the
\* 'session_id' of the X-Session-ID header; no session is given a 'session_id'
GetCommands(device) ==
    /\ polled' = device
    /\ LET found == {d \in Devices : sessions[d].exists /\ sessions[d].has_session_id}
       IN IF found = {}
          THEN /\ srvOut' = Reply("example", 200, FALSE, FALSE, <<>>, <<>>, 0, 0, "none")
               /\ sessions' = sessions
          ELSE LET d == CHOOSE d \in found : TRUE
               IN /\ srvOut' = Reply("example", 200, FALSE, FALSE,
                                     sessions[d].commands_queue, <<>>, 0, 0, "none")
                  /\ sessions' = [sessions EXCEPT ![d].commands_queue = <<>>]
    /\ UNCHANGED <<interaction_history, qAppends, user_sessions, now, local_server,
                   nreq, swipeTimes, decided>>
    /\ UNCHANGED notExample

\* GET /test-command
TestCommand ==
    /\ nreq' = nreq + 1
    /\ sessions' =
          [d \in Devices |->
              IF sessions[d].exists
              THEN [sessions[d] EXCEPT !.commands_queue = Append(@, Command("tap"))]
              ELSE sessions[d]]
    /\ srvOut' = Reply("example", 200, FALSE, FALSE, <<>>, <<>>, 0, 0, "none")
    /\ polled' = "none"
    /\ UNCHANGED <<interaction_history, qAppends, user_sessions, now, local_server,
                   swipeTimes, decided>>
    /\ UNCHANGED notExample

\* time passes
Tick(d) ==
    /\ now + d <= MaxClock
    /\ now' = now + d
    /\ UNCHANGED <<interaction_history, qAppends, user_sessions, sessions,
                   local_server, srvOut, nreq>>
    /\ UNCHANGED notSrv

\* ---- Cloud-AI/ai_server_local.py ----

\* what the OCR text, the contours, the classifier, the colours and the
\* patterns of a screen can make analyze_screen_with_ai see
LocalSigns ==
    {"login", "accept", "next", "button", "field", "keyboard", "white", "red",
     "list", "grid"}

\* the screen analysis raises out of analyze_screen_with_ai, or the
\* classifier raises inside its own try block, or neither
LocalScreens ==
    {[raises |-> r, classifier_raises |-> c, signs |-> s] :
        r \in BOOLEAN, c \in BOOLEAN,
        s \in {t \in SUBSET LocalSigns : Cardinality(t) <= 1}}
        \cup {[raises |-> FALSE, classifier_raises |-> FALSE, signs |-> s] :
                s \in {{"login", "keyboard"}, {"white", "list"}, {"keyboard", "grid"}}}

\* analyze_screen_with_ai(image, metadata)
AnalyzeScreenWithAi(screen, frame_num) ==
    When("login" \in screen.signs, "tap")
        \o When("accept" \in screen.signs, "tap")
        \o When("next" \in screen.signs, "tap")
        \o When("button" \in screen.signs, "tap")
        \o When("field" \in screen.signs, "tap")
        \o When("keyboard" \in screen.signs /\ ~screen.classifier_raises, "type")
        \o When("white" \in screen.signs, "wait")
        \o When("red" \in screen.signs, "tap")
        \o When("list" \in screen.signs /\ frame_num % 20 = 0, "swipe")
        \o When("grid" \in screen.signs, "tap")

InitialLocalServer ==
    [frames_received |-> 0, commands_sent |-> 0, last_frame_time |-> 0,
     latest_frame |-> 0]

\* POST /frame of ai_server_local.py
LocalFrame(body, screen) ==
    /\ nreq' = nreq + 1
    /\ IF RejectsBody(body)
       THEN /\ srvOut' = Rejected("local")
            /\ local_server' = local_server
       ELSE IF body.image = "bad"
       THEN /\ srvOut' = Caught("local", "decode")
            /\ local_server' = local_server
       ELSE LET received == local_server.frames_received + 1
                commands == AnalyzeScreenWithAi(screen, body.frame_number)
            IN IF screen.raises \/ body.image = "gray"
               THEN /\ local_server' =
                          [local_server EXCEPT !.frames_received = received,
                                               !.last_frame_time = received,
                                               !.latest_frame = received]
                    /\ srvOut' = Caught("local", "analysis")
               ELSE /\ local_server' =
                          [frames_received |-> received,
                           commands_sent |-> local_server.commands_sent + Len(commands),
                           last_frame_time |-> received,
                           latest_frame |-> received]
                    /\ srvOut' = Reply("local", 200, TRUE, FALSE, commands, <<>>, 0, 0,
                                       IF screen.classifier_raises THEN "analysis"
                                       ELSE "none")
    /\ UNCHANGED <<interaction_history, qAppends, user_sessions, sessions, now>>
    /\ UNCHANGED notSrv

\* ---- Cloud-AI/modal_qwen_deploy.py, modal_qwen_full.py, simple_modal_deploy.py ----

\* `data.get("frame_number", 0) % 5 == 0`
SwipeEvery == 5

\* the tap process_frame of modal_qwen_deploy.py always appends
ModalTap(width, height) ==
    [action |-> "tap", x |-> width \div 2, y |-> height \div 2,
     reason |-> "Center tap for testing"]

\* the swipe it appends every few frames; height * 0.7 and height * 0.3 as
\* exact fractions
ModalSwipe(width, height) ==
    [action |-> "swipe", start_x |-> width \div 2, start_y |-> Rat(7 * height, 10),
     end_x |-> width \div 2, end_y |-> Rat(3 * height, 10),
     reason |-> "Scroll for more content"]

ModalSwipeDueEveryTen(frame_number) == frame_number % (2 * SwipeEvery) = 0

ModalSwipeDue(frame_number) == frame_number % SwipeEvery = 0

\* the commands list of process_frame for an image of the given size
ModalCommands(width, height, frame_number) ==
    <<ModalTap(width, height)>>
        \o IF ModalSwipeDue(frame_number) THEN <<ModalSwipe(width, height)>> ELSE <<>>

\* sizes of the images sent, and the frame numbers
ModalWidths == {1, 2, 3, 390}
ModalHeights == {1, 2, 5, 844}
ModalFrameNumbers == {-5, -3, 0, 1, 5, 10}

\* a POST /frame request: request.json and the size of the image in it
ModalRequest(body, width, height) == [body |-> body, width |-> width, height |-> height]

ModalRequests ==
    {ModalRequest(NoBody, 1, 1), ModalRequest(Body("noimage", "plain", FALSE, 0), 1, 1),
     ModalRequest(Body("ok", "bad", FALSE, 0), 1, 1)}
        \cup {ModalRequest(Body("ok", "plain", FALSE, 0), w, h) :
                 w \in ModalWidths, h \in ModalHeights}
        \cup {ModalRequest(Body("ok", "plain", TRUE, n), w, h) :
                 w \in ModalWidths, h \in ModalHeights, n \in ModalFrameNumbers}

NoModalRequest == ModalRequest(NoBody, 0, 0)

ModalResponse(status, success, frame_size, commands) ==
    [status |-> status, success |-> success, frame_size |-> frame_size,
     commands |-> commands]

NoModalResponse == ModalResponse(0, FALSE, <<0, 0>>, <<>>)

\* process_frame of modal_qwen_deploy.py: the response
ModalProcess(request) ==
    IF RejectsBody(request.body) THEN ModalResponse(400, FALSE, <<0, 0>>, <<>>)
    ELSE IF request.body.image = "bad" THEN ModalResponse(500, FALSE, <<0, 0>>, <<>>)
    ELSE ModalResponse(200, TRUE, <<request.width, request.height>>,
                       ModalCommands(request.width, request.height,
                                     request.body.frame_number))

\* POST /frame of modal_qwen_deploy.py, with the commands in full
ModalProcessFrame(request) ==
    /\ modalIn' = request
    /\ modalOut' = ModalProcess(request)
    /\ UNCHANGED notModal

\* the 'action' of each command
ActionsOf(commands) == [i \in 1..Len(commands) |-> Command(commands[i].action)]

\* POST /frame of modal_qwen_deploy.py
ModalDeployFrame(body) ==
    /\ nreq' = nreq + 1
    /\ srvOut' =
          IF RejectsBody(body) THEN Rejected("modal_deploy")
          ELSE IF body.image = "bad" THEN Caught("modal_deploy", "decode")
          ELSE Reply("modal_deploy", 200, TRUE, FALSE,
                     ActionsOf(ModalCommands(390, 844, body.frame_number)),
                     <<>>, 0, 0, "none")
    /\ UNCHANGED <<interaction_history, qAppends, user_sessions, sessions, now,
                   local_server>>
    /\ UNCHANGED notSrv

\* words of the model's text that modal_qwen_full.py looks for
ModalWords == {"button", "scroll", "text"}

\* the model raises, or its text holds some of the words
ModalAnswers ==
    {[raises |-> TRUE, words |-> {}]}
        \cup {[raises |-> FALSE, words |-> w] : w \in SUBSET ModalWords}

\* the web endpoint of modal_qwen_full.py; its except clause returns a dict
ModalFullFrame(body, answer) ==
    /\ nreq' = nreq + 1
    /\ srvOut' =
          IF body.kind # "ok" \/ body.image = "bad"
          THEN Reply("modal_full", 200, FALSE, TRUE, <<>>, <<>>, 0, 0, "decode")
          ELSE IF answer.raises
          THEN Reply("modal_full", 200, FALSE, TRUE, <<>>, <<>>, 0, 0, "analysis")
          ELSE Reply("modal_full", 200, TRUE, FALSE,
                     When("button" \in answer.words, "tap")
                        \o When("scroll" \in answer.words, "swipe")
                        \o When("text" \in answer.words, "type"),
                     <<>>, 0, 0, "none")
    /\ UNCHANGED <<interaction_history, qAppends, user_sessions, sessions, now,
                   local_server>>
    /\ UNCHANGED notSrv

\* the web endpoint of simple_modal_deploy.py; nothing catches what the
\* decoding raises, and the framework answers 500
SimpleModalFrame(body) ==
    /\ nreq' = nreq + 1
    /\ srvOut' =
          IF body.kind # "ok" \/ body.image = "bad"
          THEN Reply("simple_modal", 500, FALSE, FALSE, <<>>, <<>>, 0, 0, "decode")
          ELSE Reply("simple_modal", 200, TRUE, FALSE, <<Command("tap")>>, <<>>, 0, 0,
                     "none")
    /\ UNCHANGED <<interaction_history, qAppends, user_sessions, sessions, now,
                   local_server>>
    /\ UNCHANGED notSrv

\* ---- Cloud-AI/ai_server.py: POST /command ----

\* request.json of a POST /command: nothing, an object without 'action', or
\* a command with an action
ManualBodies == {"missing", "noaction"} \cup (ModelActions \ {"absent"})

\* manual_command answers with the command it was sent
ManualCommand(body) ==
    /\ nreq' = nreq + 1
    /\ srvOut' =
          IF body \in {"missing", "noaction"} THEN Rejected("ai_server")
          ELSE Reply("ai_server", 200, TRUE, FALSE, <<Command(body)>>, <<body>>, 1, 0,
                     "none")
    /\ UNCHANGED <<interaction_history, qAppends, user_sessions, sessions, now,
                   local_server>>
    /\ UNCHANGED notSrv

\* ---- the servers together ----

InitSrvVars ==
    /\ interaction_history = <<>>
    /\ qAppends = 0
    /\ user_sessions = [d \in Devices |-> NoVisionSession]
    /\ sessions = [d \in Devices |-> NoExampleSession]
    /\ now = 0
    /\ local_server = InitialLocalServer
    /\ srvOut = NoReplyYet
    /\ nreq = 0

\* bodies of a POST /frame whose image is not looked at for its colour
PlainBodies == {b \in FrameBodies : b.image # "blue"}

\* bodies of a POST /frame whose frame_number plays no part
SimpleBodies == {b \in PlainBodies : ~b.has_frame_number /\ b.image # "gray"}

\* bodies that are objects
ObjectBodies == {b \in SimpleBodies : b.kind # "missing"}

\* no request of ai_server.py is under way and fewer than limit requests
\* have been taken up
Room(limit) == aPc[1] = "idle" /\ nreq + aSerial < limit

NextServers ==
    \/ Room(MaxRequests) /\ \E body \in FrameBodies : StartFrame(1, body)
    \/ ThreadStep(1)
    \/ Room(MaxRequests) /\ \E body \in SimpleBodies, vision \in QwenVisions,
                               reasoning \in QwenReasonings :
                               QwenFrame(body, vision, reasoning)
    \/ Room(MaxRequests) /\ QwenReset
    \/ Room(MaxRequests) /\ \E body \in SimpleBodies, device \in Devices,
                               answer \in VisionAnswers :
                               VisionFrame(body, device, answer)
    \/ Room(MaxRequests) /\ \E body \in BroadcastBodies, device \in Devices,
                               screen \in ExampleScreens :
                               BroadcastFrame(body, device, screen, 0)
    \/ Room(MaxRequests) /\ GetCommands("iphone-1")
    \/ Room(MaxRequests) /\ TestCommand
    \/ Tick(ScrollInterval + 1)
    \/ Room(MaxRequests) /\ \E body \in PlainBodies, screen \in LocalScreens :
                               LocalFrame(body, screen)
    \/ Room(MaxRequests) /\ \E body \in PlainBodies : ModalDeployFrame(body)
    \/ Room(MaxRequests) /\ \E body \in ObjectBodies, answer \in ModalAnswers :
                               ModalFullFrame(body, answer)
    \/ Room(MaxRequests) /\ \E body \in ObjectBodies : SimpleModalFrame(body)
    \/ Room(MaxRequests) /\ \E body \in ManualBodies : ManualCommand(body)

\* the requests that fill the rolling histories
HistBody == Body("ok", "plain", FALSE, 0)

HistReasonings ==
    {[kind |-> "raises", actions |-> <<>>], [kind |-> "json", actions |-> <<"scroll">>],
     [kind |-> "json", actions |-> <<"home">>]}

HistAnswers ==
    {[kind |-> "reply", listed |-> <<>>, words |-> {}],
     [kind |-> "reply", listed |-> <<"home">>, words |-> {"list"}]}

NextHist ==
    \/ nreq < MaxHistReqs /\ \E reasoning \in HistReasonings :
                                QwenFrame(HistBody, [kind |-> "ok", clickable |-> TRUE],
                                          reasoning)
    \/ nreq < MaxHistReqs /\ QwenReset
    \/ nreq < MaxHistReqs /\ \E device \in Devices, answer \in HistAnswers :
                                VisionFrame(HistBody, device, answer)

InitExVars ==
    /\ polled = "none"
    /\ swipeTimes = [d \in Devices |-> <<>>]
    /\ decided = NoDecision

InitModalVars ==
    /\ modalIn = NoModalRequest
    /\ modalOut = NoModalResponse

\* the state of the programs a specification does not run
InitOthers == InitExVars /\ InitModalVars /\ InitVisVars /\ InitAutoVars

InitRest ==
    /\ InitOthers
    /\ InitScorerVars([a \in Apps |-> <<>>])
    /\ InitLifeVars([d \in Devices |-> NoUserContext])

InitCoreVars(modes) ==
    /\ mode \in modes
    /\ stack = <<>>
    /\ elements = {}
    /\ history = [a \in Apps |-> <<>>]
    /\ screens = 0
    /\ req = NoRequest
    /\ resp = NoResponse
    /\ calls = 0
    /\ asks = 0
    /\ learnedBefore = FALSE

Init == InitCoreVars({"stub", "live"}) /\ InitFrameVars /\ InitSrvVars /\ InitRest

InitStub == InitCoreVars({"stub"}) /\ InitFrameVars /\ InitSrvVars /\ InitRest

\* the servers start with jarvis_core_system.py at rest
InitServers == InitStub

\* the scorer with some results recorded already
InitUpdates ==
    /\ mode = "stub"
    /\ stack = <<>>
    /\ elements = {}
    /\ history \in RecordedBefore
    /\ screens = 0
    /\ req = NoRequest
    /\ resp = NoResponse
    /\ calls = 0
    /\ asks = 0
    /\ learnedBefore = FALSE
    /\ InitFrameVars
    /\ InitSrvVars
    /\ InitOthers
    /\ InitScorerVars(history)
    /\ InitLifeVars([d \in Devices |-> NoUserContext])

\* update_history called over and over
SpecUpdates == InitUpdates /\ [][NextUpdates]_vars

\* score_command and update_history called in any order
SpecScorer == InitServers /\ [][NextScorer]_vars

Next ==
    \/ \E command \in DirectCommands : Call(command)
    \/ Layer2
    \/ Layer3
    \/ Layer4
    \/ Layer5
    \/ ReturnToCaller
    \/ ReturnTop

Spec == Init /\ [][Next]_vars

SpecStub == InitStub /\ [][Next]_vars

NextCore ==
    \/ \E context \in Contexts : ProcessFrame(context)
    \/ Layer2
    \/ Layer3
    \/ Layer4
    \/ Layer5
    \/ ReturnToCaller
    \/ ReturnTop

SpecCore == Init /\ [][NextCore]_vars

SpecFrame == InitServers /\ [][NextFrame]_vars

SpecRace == InitServers /\ [][NextRace]_vars

SpecServers == InitServers /\ [][NextServers]_vars

SpecHist == InitServers /\ [][NextHist]_vars

\* screens make_decision queues a tap, a home or a swipe for
QueueingScreens ==
    {Screen(FALSE, "TikTok", 0, FALSE, FALSE), Screen(FALSE, "Uber", 1, FALSE, TRUE),
     Screen(FALSE, "iMessage", 0, TRUE, FALSE)}

\* ai_server_example.py: frames and test commands arrive, clients poll
NextExample ==
    \/ nreq < MaxExampleReqs /\ \E body \in {"bad", "plain"}, device \in Devices,
                                    screen \in QueueingScreens, late \in 0..1 :
                                    BroadcastFrame(body, device, screen, late)
    \/ nreq < MaxExampleReqs /\ TestCommand
    \/ \E device \in Devices : GetCommands(device)
    \/ \E d \in {1, ScrollInterval} : Tick(d)

SpecExample == InitServers /\ [][NextExample]_vars

\* modal_qwen_deploy.py: POST /frame requests
NextModal == \E request \in ModalRequests : ModalProcessFrame(request)

SpecModal == InitServers /\ [][NextModal]_vars

\* ai_vision_server_2025.py served by two threads at once
SpecSessions == InitServers /\ [][NextSessions]_vars

\* lifeos_prototype.py with some apps detected already
InitLife ==
    /\ InitCoreVars({"stub"})
    /\ InitFrameVars
    /\ InitSrvVars
    /\ InitOthers
    /\ InitScorerVars([a \in Apps |-> <<>>])
    /\ \E contexts \in [Devices -> DetectedBefore] : InitLifeVars(contexts)

SpecLife == InitLife /\ [][NextLife]_vars

\* process_frame_for_automation of ai_server.py called directly
SpecAutomation == InitServers /\ [][NextAutomation]_vars

\* the clients keep polling GET /commands
SpecPoll == SpecExample /\ WF_vars(\E device \in Devices : GetCommands(device))

----------------------------------------------------------------------------
(* Claims about SelfHealingAutomation.execute_automation *)

LayerRank(layer) ==
    CASE layer = "accessibility" -> 2
      [] layer = "memory" -> 3
      [] layer = "model" -> 3
      [] layer = "retry" -> 4
      [] layer = "teaching" -> 5

Attempted(f, layer) == \E j \in 1..Len(f.log) : f.log[j].layer = layer

VisualAttempted(f) == Attempted(f, "memory") \/ Attempted(f, "model")

InvocationInOrder(f) ==
    \* the fixed order, every layer at most once
    /\ \A j, k \in 1..Len(f.log) :
          j < k => LayerRank(f.log[j].layer) < LayerRank(f.log[k].layer)
    \* a later layer only after every earlier attempted layer failed, and
    \* nothing after the layer whose success is returned
    /\ \A j \in 1..Len(f.log) :
          f.log[j].good => (j = Len(f.log) /\ f.pc = "ret" /\ f.result.success)
    \* the conditions under which a layer is attempted
    /\ f.pc # "L2" =>
          (Attempted(f, "accessibility") <=> RGt(f.given.confidence, Rat(9, 10)))
    /\ \A j \in 1..Len(f.log) :
          /\ f.log[j].layer = "memory" => f.log[j].remembered
          /\ f.log[j].layer = "model" => ~f.log[j].remembered
    /\ (f.pc \in {"L4", "L4wait", "L5"} \/ Attempted(f, "retry") \/ Attempted(f, "teaching"))
          => VisualAttempted(f)
    /\ (f.pc = "L4wait" \/ Attempted(f, "retry"))
          => f.given.retry_count < f.given.max_retries
    /\ (f.pc = "L5" \/ Attempted(f, "teaching"))
          => (Attempted(f, "retry") <=> f.given.retry_count < f.given.max_retries)

\* C1: in every invocation of execute_automation the layers are attempted in
\* the order accessibility (only when confidence > 0.9), visual AI (the
\* remembered location, else model inference), retry (only when retry_count <
\* max_retries), user teaching; a later layer is attempted only after every
\* earlier attempted layer failed, nothing is attempted after the layer whose
\* success is returned, and a caller attempts nothing while its retry runs.
C1_LayersInOrder ==
    \A i \in 1..Len(stack) :
        /\ InvocationInOrder(stack[i])
        /\ i < Len(stack) => stack[i].pc = "L4wait"

\* an invocation that went through all four layers, each failing before the next
C1_AllLayersAttempted ==
    \E i \in 1..Len(stack) :
        /\ Len(stack[i].log) = 4
        /\ stack[i].log[1].layer = "accessibility"
        /\ stack[i].log[4].layer = "teaching"

\* C2: across a top-level call of execute_automation and its recursive retry
\* invocations, _request_user_teaching is invoked at most once.
C2_AsksAtMostOnce == asks <= 1

\* C3: once _learn_from_user has stored the element of a description, a later
\* execute_automation call for that description invokes no user teaching.
C3_NeverAsksAgain == learnedBefore => asks = 0

Max(a, b) == IF a > b THEN a ELSE b

\* the recursive invocations a command can still cause
SpawnBound(command) ==
    IF command.retry_count < command.max_retries
    THEN 1 + Max(0, DefaultMaxRetries - (command.retry_count + 1))
    ELSE 0

PcRank(pc) ==
    CASE pc = "L2" -> 5
      [] pc = "L3" -> 4
      [] pc = "L4" -> 3
      [] pc = "L4wait" -> 2
      [] pc = "L5" -> 1
      [] pc = "ret" -> 0

RECURSIVE SumPcRank(_)
SumPcRank(st) == IF st = <<>> THEN 0 ELSE PcRank(Head(st).pc) + SumPcRank(Tail(st))

\* a natural number that every step of a running call decreases
Variant ==
    IF ~Running THEN 0
    ELSE 1 + SumPcRank(stack)
           + 6 * (IF Top.pc \in {"L2", "L3", "L4"} THEN SpawnBound(Top.cmd) ELSE 0)

C4_CallsBounded ==
    Running =>
        /\ Len(stack) <= calls
        /\ calls <= 1 + SpawnBound(stack[1].given)
        /\ (stack[1].given.retry_count = 0 /\ stack[1].given.max_retries = 3)
              => calls <= 4

\* C4: every top-level call of execute_automation terminates: each step of a
\* running call decreases a natural-number variant, the chain of recursive
\* invocations is bounded by the command's retry_count and max_retries, and a
\* command starting with retry_count 0 and max_retries 3 causes at most 4
\* invocations.
C4_Terminates ==
    /\ []C4_CallsBounded
    /\ [][Running => Variant' < Variant]_vars

\* the fourth invocation of a call that began with retry_count 0, max_retries 3
C4_FourInvocations ==
    /\ Running
    /\ calls = 4
    /\ stack[1].given.retry_count = 0
    /\ stack[1].given.max_retries = 3

\* a step in which process_frame begins: the screen is stored while no
\* execute_automation call is running
FrameBegins == (~Running) /\ screens' # screens

\* C5: process_frame calls execute_automation if and only if the score is
\* strictly greater than 0.7; otherwise the history is not updated and the
\* result has command None and reason "Low confidence"; in both cases the
\* screen has been stored.
C5_ExecutesIffConfident ==
    [][FrameBegins =>
          /\ screens' = screens + 1
          /\ IF stack' # <<>>
             THEN /\ RGt(stack'[1].given.confidence, Rat(7, 10))
                  /\ resp'.command # "None"
             ELSE /\ ~RGt(resp'.confidence, Rat(7, 10))
                  /\ resp'.command = "None"
                  /\ resp'.reason = "Low confidence"
                  /\ history' = history]_vars

\* a frame whose score is exactly 0.7 was answered with "Low confidence"
C5_LowConfidenceAtThreshold ==
    /\ resp.command = "None"
    /\ resp.reason = "Low confidence"
    /\ resp.confidence = Rat(7, 10)
    /\ screens > 0

----------------------------------------------------------------------------
(* Claims about Cloud-AI/ai_server.py *)

\* thread w takes up a POST /frame request in this step
FrameArrives(w) == aSerial' # aSerial /\ aBody'[w].id = aSerial'

\* C8: a POST /frame whose JSON body is missing or has no 'image' key is
\* answered with 400 there and then, and frames_received, commands_sent,
\* last_frame_time and latest_frame are what they were before the request
C8_RejectedLeavesState ==
    [][\A w \in Threads :
          (FrameArrives(w) /\ aBody'[w].kind \in {"missing", "noimage"})
              => /\ aPc'[w] = "idle"
                 /\ aOut'[w].status = 400
                 /\ stats' = stats
                 /\ latest_frame' = latest_frame]_vars

\* a body without 'image' was answered with 400 after frames had been stored
C8_RejectedAfterFrames ==
    /\ aPc[1] = "idle"
    /\ aBody[1].kind = "noimage"
    /\ aOut[1].status = 400
    /\ stats.frames_received > 0
    /\ stats.commands_sent > 0
    /\ latest_frame.set

\* C9: every /analyze observation of latest_frame is a record written by
\* one single /frame request, and once no /frame request stands between
\* acquiring frame_lock and storing, latest_frame is entirely the record of
\* the request that acquired frame_lock last
C9_NoMixedFrame ==
    /\ \A w \in Threads :
          /\ aOut[w].kind = "analysis" => aOut[w].analysis \in written
          /\ aPc[w] = "a_reply" => aLoc[w].obs \in written
    /\ (latest_frame.set /\ \A w \in Threads : aPc[w] # "store")
          => /\ latest_frame \in written
             /\ latest_frame.image.id = lastLocker
             /\ latest_frame.timestamp = lastLocker
             /\ latest_frame.device_id = lastLocker

\* two /frame requests raced, the one that arrived first acquired frame_lock
\* last, and /analyze then observed its record
C9_RaceObserved ==
    /\ aSerial >= 2
    /\ lastLocker = 1
    /\ \E w \in Threads : aBody[w].id = 2 /\ aPc[w] \in {"automation", "respond", "sent_read"}
    /\ \E w \in Threads : aOut[w].kind = "analysis" /\ aOut[w].analysis.image.id = 1

----------------------------------------------------------------------------
(* Claims about the commands, the error responses and the histories of the
   frame servers *)

FiveKinds == {"tap", "swipe", "type", "wait", "back"}

AllOf(commands, kinds) == \A i \in 1..Len(commands) : commands[i].action \in kinds

\* what the reasoning server is to make of a listed action: "scroll" becomes
\* "swipe", an action left out is a tap, and the five kinds stay
Mapped(action) ==
    IF action = "scroll" THEN "swipe" ELSE IF action = "absent" THEN "tap" ELSE action

IsKept(action) == action \in FiveKinds \cup {"scroll", "absent"}

KeptAndMapped(listed) ==
    LET kept == SelectSeq(listed, IsKept)
    IN [i \in 1..Len(kept) |-> Command(Mapped(kept[i]))]

C7_FailureGives500 ==
    /\ srvOut.failed # "none"
          => srvOut.status = 500 /\ srvOut.error /\ ~srvOut.success
    /\ \A w \in Threads :
          (aPc[w] = "idle" /\ aBody[w].kind = "ok" /\ aBody[w].image \in {"bad", "gray"})
              => aOut[w].status = 500 /\ ~aOut[w].success

\* entries are the last ones appended, oldest first, and no more than keep
InArrivalOrder(entries, appends, keep) ==
    /\ Len(entries) = Min(appends, keep)
    /\ \A i \in 1..Len(entries) : entries[i].n = appends - Len(entries) + i

HistoryOverflows ==
    /\ qAppends = 11
    /\ Len(interaction_history) = 10
    /\ interaction_history[1].n = 2

----------------------------------------------------------------------------
(* Claims about ConfidenceScorer *)

\* C15: after any sequence of update_history calls every history key holds
\* at most 100 entries, and once more than 100 results were recorded for a
\* key it holds exactly the 100 most recent ones in the order recorded
C15_HistoryKeepsLastHundred ==
    \A a \in Apps :
        LET h == history[a]
            all == recorded[a]
        IN /\ Len(h) <= 100
           /\ Len(h) = IF Len(all) > 100 THEN 100 ELSE Len(all)
           /\ \A i \in 1..Len(h) : h[i] = all[Len(all) - Len(h) + i]

\* 102 results were recorded for a key, the last three of them directly
C15_HistoryOverflowed ==
    \E a \in Apps :
        /\ Len(recorded[a]) = 102
        /\ Len(history[a]) = 100
        /\ nUpdates = 3
        /\ history[a][100].method = "user_teaching"
        /\ history[a][1] = recorded[a][3]

\* r lies in [0, 1]
InUnit(r) == ~RGt(Rat(0, 1), r) /\ ~RGt(r, Rat(1, 1))

ScoreInRange ==
    scored.called =>
        /\ ~RGt(scored.value, Rat(1, 1))
        /\ (scored.context.has_ai => InUnit(scored.context.ai_confidence))
              => InUnit(scored.value)
        /\ scored.context.learned_from_user => scored.value = <<99, 100>>

\* C16: score_command never returns more than 1.0, returns a value of
\* [0, 1] when ai_confidence is absent or in [0, 1], returns exactly 0.99
\* when learned_from_user is set whatever the history, the target keys and
\* ai_confidence are, and leaves the history as it was
C16_ScoreBounded ==
    /\ []ScoreInRange
    /\ [][scored' # scored => history' = history /\ recorded' = recorded]_vars

\* a command with an element id was scored 0.99 for a user-taught context
\* whose ai_confidence is 1.5 and whose key has a history of failures
C16_LearnedScored ==
    /\ scored.called
    /\ scored.context.learned_from_user
    /\ scored.context.has_ai
    /\ scored.context.ai_confidence = <<3, 2>>
    /\ "element_id" \in scored.keys
    /\ Len(history[scored.context.app]) = 2
    /\ Successes(history[scored.context.app]) = 0
    /\ scored.value = <<99, 100>>

----------------------------------------------------------------------------
(* Claims about Layer 2 with the helper stubs as written *)
AccessibilityMethods == {"accessibility_api", "accessibility_text_match"}

\* no Layer 2 attempt on the stack succeeded and no result held or returned
\* is a successful accessibility result
NoAccessibilitySuccess ==
    /\ \A i \in 1..Len(stack) :
          /\ \A j \in 1..Len(stack[i].log) :
                stack[i].log[j].layer = "accessibility" => ~stack[i].log[j].success
          /\ stack[i].result.method \in AccessibilityMethods => ~stack[i].result.success
    /\ resp.result.method \in AccessibilityMethods => ~resp.result.success

\* Layer 2 acts in this step
Layer2Acts == Running /\ Top.pc = "L2" /\ stack' # stack

\* C14: with the accessibility helpers as written, _try_accessibility_api
\* never reports success, no result of execute_automation is a successful
\* "accessibility_api" or "accessibility_text_match" result, and Layer 2
\* never reaches _store_success
C14_StubAccessibilityNeverSucceeds ==
    /\ []NoAccessibilitySuccess
    /\ [][Layer2Acts =>
            /\ screens' = screens
            /\ Len(stack') = Len(stack)
            /\ stack'[Len(stack)].pc = "L3"
            /\ \A r \in TryAccessibilityApi(Top.cmd) : ~r.success]_vars

\* Layer 2 was attempted for a command that names an element and a text,
\* failed, and the invocation went on
C14_AccessibilityTriedAndFailed ==
    /\ mode = "stub"
    /\ Running
    /\ {"element_id", "text"} \subseteq Top.cmd.target.keys
    /\ Top.pc # "L2"
    /\ Top.log # <<>>
    /\ Top.log[1].layer = "accessibility"
    /\ ~Top.log[1].success
    /\ Top.result.method = "accessibility_api"

----------------------------------------------------------------------------
(* Claims about GET /analyze of ai_server.py *)

\* thread w passes `if not latest_frame:` in this step
AnalyzeChecks(w) == aPc[w] = "a_check" /\ aPc'[w] # "a_check"

\* thread w answers 404 in this step
Answers404(w) == aPc[w] # "idle" /\ aPc'[w] = "idle" /\ aOut'[w].status = 404

\* C13: GET /analyze answers 404 whenever no POST /frame has stored a
\* frame yet, never answers 404 once one has, and latest_frame never
\* returns to empty
C13_NotFoundOnlyBeforeFirstFrame ==
    [][/\ \A w \in Threads : AnalyzeChecks(w) => (Answers404(w) <=> written = {})
       /\ \A w \in Threads : Answers404(w) => written = {}
       /\ latest_frame.set => latest_frame'.set
       /\ written # {} => latest_frame'.set]_vars

\* one GET /analyze was answered 404 and, a frame stored, another was
\* answered with an analysis
C13_AnalyzedAfterNotFound ==
    \E v, w \in Threads :
        /\ aOut[v].status = 404
        /\ aOut[w].status = 200
        /\ aOut[w].kind = "analysis"
        /\ written # {}

----------------------------------------------------------------------------
(* Claims about the sessions of ai_vision_server_2025.py *)

\* requests for device d that passed decoding and have not counted yet
Uncounted(d) ==
    Cardinality({w \in Threads :
        /\ vReq[w].device = d
        /\ vPc[w] \in {"v_lock", "v_check", "v_create", "v_read", "v_write"}})

\* what GET /sessions should list for device d
CountOf(d) == IF created[d] = 0 THEN -1 ELSE decoded[d] - Uncounted(d)

SessionsCounted ==
    \A d \in Devices :
        /\ created[d] <= 1
        /\ user_sessions[d].exists <=> created[d] = 1
        /\ user_sessions[d].frames_received = decoded[d] - Uncounted(d)
        /\ (\A w \in Threads : vPc[w] = "idle") =>
              user_sessions[d].frames_received = decoded[d]

\* C17: under any interleaving of POST /frame requests each device has
\* exactly one session object, never re-created or overwritten, its
\* frames_received is the number of its requests that passed image
\* decoding, and GET /sessions reports these counts
C17_OneSessionEveryFrameCounted ==
    /\ []SessionsCounted
    /\ [][/\ \A d \in Devices :
               user_sessions[d].exists =>
                   /\ user_sessions'[d].exists
                   /\ user_sessions'[d].frames_received >= user_sessions[d].frames_received
          /\ \A w \in Threads :
               vPc[w] = "s_list" /\ vPc'[w] = "idle" =>
                   \A d \in Devices : reported'[d] = CountOf(d)]_vars

\* GET /sessions listed one frame for a device while a second request for
\* it, decoded already, was waiting for session_lock
C17_ListedWhileWaiting ==
    \E d \in Devices :
        /\ decoded[d] = 2
        /\ created[d] = 1
        /\ reported[d] = 1
        /\ user_sessions[d].frames_received = 1
        /\ \E w \in Threads : vPc[w] = "v_lock" /\ vReq[w].device = d

----------------------------------------------------------------------------
(* Claims about ai_server_example.py *)

\* C11: every command queued for a device by POST /broadcast-frame or by
\* GET /test-command is eventually returned by a later GET /commands poll,
\* the clients polling for ever
C11_QueuedEventuallyReturned ==
    \A d \in Devices :
        (sessions[d].commands_queue # <<>>)
            ~> (polled \in Devices /\ srvOut.commands # <<>>)

\* C18: GET /commands gets and clears the device's queue: once a device's
\* poll has been answered its queue is empty until the next frame or test
\* command queues more
C18_PollEmptiesQueue ==
    polled \in Devices => sessions[polled].commands_queue = <<>>

\* the swipes in a queue
SwipesIn(queue) == Cardinality({i \in 1..Len(queue) : queue[i].action = "swipe"})

\* any two swipes of a device come from frames more than 5 seconds apart
SwipesApart ==
    \A d \in Devices :
        \A i, j \in 1..Len(swipeTimes[d]) :
            i < j => swipeTimes[d][j] - swipeTimes[d][i] > 5

\* make_decision is called for a frame in this step
Decides == decided'.n # decided.n

\* the frame of this step is a TikTok frame processed more than 5 seconds
\* after the device's last scroll, or the device has never scrolled
DueTikTokFrame ==
    /\ Decides
    /\ decided'.app = "TikTok"
    /\ \/ swipeTimes[decided'.device] = <<>>
       \/ decided'.at - sessions[decided'.device].last_tiktok_scroll > 5

C20_TooEarly ==
    \E d \in Devices :
        /\ Len(swipeTimes[d]) = 1
        /\ decided.device = d
        /\ decided.app = "TikTok"
        /\ decided.n = 2
        /\ decided.at - sessions[d].last_tiktok_scroll = 5
        /\ SwipesIn(sessions[d].commands_queue) = 1

----------------------------------------------------------------------------
(* Claims about lifeos_prototype.py *)

PriorityApps == {AppPriority[i] : i \in 1..Len(AppPriority)}

NextShortcutRight ==
    lifeOut.status = 200 =>
        LET detected == USER_CONTEXTS[lifeIn.device_id].apps_detected
            next == lifeOut.next_app
        IN /\ lifeOut.detected_app \in detected
           /\ next \notin detected
           /\ next = "advanced" <=> PriorityApps \subseteq detected
           /\ next # "advanced" =>
                 \E i \in 1..Len(AppPriority) :
                    /\ AppPriority[i] = next
                    /\ \A j \in 1..(i - 1) : AppPriority[j] \in detected

\* C19: for every user and sequence of POST /intake requests next_shortcut
\* names the first app of the priority list that is not in the user's
\* apps_detected, the current request's app included, so never an app
\* already detected, and "advanced" exactly when all eleven are detected;
\* apps_detected never shrinks
C19_NextShortcutFirstUndetected ==
    /\ Len(AppPriority) = 11
    /\ Cardinality(PriorityApps) = 11
    /\ []NextShortcutRight
    /\ [][\A d \in Devices :
             /\ USER_CONTEXTS[d].exists => USER_CONTEXTS'[d].exists
             /\ USER_CONTEXTS[d].apps_detected \subseteq USER_CONTEXTS'[d].apps_detected]_vars

\* a user who had all of the list but "teams" sent a teams item and was
\* offered "advanced", the other user being offered "slack"
C19_AdvancedOffered ==
    /\ lifeOut.status = 200
    /\ lifeOut.detected_app = "teams"
    /\ lifeOut.next_app = "advanced"
    /\ nIntakes = 2
    /\ \E d \in Devices : USER_CONTEXTS[d].apps_detected = {"unknown"}

----------------------------------------------------------------------------
(* Claims about modal_qwen_deploy.py *)

\* the request carries an image that decodes
CarriesImage(request) == request.body.kind = "ok" /\ request.body.image # "bad"

\* n is a multiple of five
MultipleOfFive(n) == \E k \in -10..10 : n = 5 * k

\* C12: a POST /frame carrying a valid image is answered 200 with success
\* true and a non-empty commands list whose entries all have an "action";
\* the first is a tap at (width // 2, height // 2), and a swipe follows it
\* exactly when frame_number (0 when absent) is a multiple of 5
C12_TapThenSwipeEveryFifth ==
    CarriesImage(modalIn) =>
        LET commands == modalOut.commands
            frame_number == IF modalIn.body.has_frame_number
                            THEN modalIn.body.frame_number ELSE 0
        IN /\ modalOut.status = 200
           /\ modalOut.success
           /\ Len(commands) >= 1
           /\ \A i \in 1..Len(commands) : "action" \in DOMAIN commands[i]
           /\ commands[1].action = "tap"
           /\ 2 * commands[1].x <= modalIn.width
           /\ modalIn.width < 2 * commands[1].x + 2
           /\ 2 * commands[1].y <= modalIn.height
           /\ modalIn.height < 2 * commands[1].y + 2
           /\ IF MultipleOfFive(frame_number)
              THEN Len(commands) = 2 /\ commands[2].action = "swipe"
              ELSE Len(commands) = 1

\* a frame numbered 5 with an image of odd width was answered
C12_FifthFrameAnswered ==
    /\ CarriesImage(modalIn)
    /\ modalIn.body.has_frame_number
    /\ modalIn.body.frame_number = 5
    /\ modalIn.width = 3
    /\ modalIn.height = 5
    /\ Len(modalOut.commands) = 2
    /\ modalOut.commands[1].x = 1
    /\ modalOut.commands[1].y = 2

----------------------------------------------------------------------------
(* Claims about process_frame_for_automation of ai_server.py *)

\* n is a multiple of k
MultipleOf(n, k) == \E q \in (0 - MaxFrameNumber)..MaxFrameNumber : n = k * q

\* the places of the commands with this action
PlacesOf(commands, action) == {i \in DOMAIN commands : commands[i].action = action}

\* C21: process_frame_for_automation returns the centre tap exactly when the
\* metadata's frame_number (0 when absent) is a multiple of 10 and the
\* scroll-up swipe exactly when it is a multiple of 30; so a result with the
\* swipe has the tap, the tap comes before the swipe, and the loading-screen
\* wait, when there is one, comes before both.
C21_TapTenthSwipeThirtieth ==
    (autoIn.called /\ ~autoOut.raised) =>
        LET n == IF autoIn.metadata.has_frame_number
                 THEN autoIn.metadata.frame_number ELSE 0
            taps == PlacesOf(autoOut.commands, "tap")
            swipes == PlacesOf(autoOut.commands, "swipe")
            waits == PlacesOf(autoOut.commands, "wait")
        IN /\ (taps # {}) <=> MultipleOf(n, 10)
           /\ (swipes # {}) <=> MultipleOf(n, 30)
           /\ (swipes # {}) => (taps # {})
           /\ \A i \in taps, j \in swipes : i < j
           /\ \A i \in waits, j \in taps \cup swipes : i < j

\* a blue screen at frame 30: wait, tap and swipe are returned
C21_WaitTapSwipeReturned ==
    /\ autoIn.called
    /\ autoIn.image.kind = "blue"
    /\ autoIn.metadata.has_frame_number
    /\ autoIn.metadata.frame_number = 30
    /\ ~autoOut.raised
    /\ Len(autoOut.commands) = 3
    /\ autoOut.commands[3].action = "swipe"

\* a frame whose number is a multiple of 10 but not of 30: the tap alone
C21_TapAlone ==
    /\ autoIn.called
    /\ autoIn.metadata.frame_number = 20
    /\ ~autoOut.raised
    /\ autoOut.commands = <<[action |-> "tap"]>>

----------------------------------------------------------------------------
(* Claims about the counters of ai_server.py *)

\* no request of ai_server.py is under way
AllAnswered == \A w \in Threads : aPc[w] = "idle"

\* the answered POST /frame requests whose image was decoded: those that got
\* as far as process_frame_for_automation
DecodedAnswers == {a \in answered : a.at \in {"automation", "respond"}}

\* the answered POST /frame requests with a success response
SuccessAnswers == {a \in answered : a.reply.success}

\* the number of commands request id got in a success response
CommandsAnswered(id) ==
    LET a == {x \in SuccessAnswers : x.id = id}
    IN IF a = {} THEN 0 ELSE Len((CHOOSE x \in a : TRUE).reply.commands)

\* the number of commands in all success responses
TotalCommandsAnswered ==
    LET total[i \in 0..aSerial] ==
            IF i = 0 THEN 0 ELSE total[i - 1] + CommandsAnswered(i)
    IN total[aSerial]

\* C22: however concurrent POST /frame requests of ai_server.py interleave,
\* once they are answered frames_received is the number of requests whose
\* image was decoded and commands_sent the number of commands in all success
\* responses, and no two success responses carry the same frame_id.
C22_CountersExact ==
    /\ AllAnswered =>
           /\ stats.frames_received = Cardinality(DecodedAnswers)
           /\ stats.commands_sent = TotalCommandsAnswered
    /\ \A a, b \in SuccessAnswers :
           a.id # b.id => a.reply.frame_id # b.reply.frame_id

\* two requests were answered with success
C22_TwoAnswered == AllAnswered /\ Cardinality(SuccessAnswers) = 2

\* C22's three parts, each on its own
C22_FramesCounted ==
    AllAnswered => stats.frames_received = Cardinality(DecodedAnswers)

C22_CommandsCounted ==
    AllAnswered => stats.commands_sent = TotalCommandsAnswered

C22_FrameIdsDistinct ==
    \A a, b \in SuccessAnswers : a.id # b.id => a.reply.frame_id # b.reply.frame_id

====
